---- MODULE Spec2Model ----
(***************************************************************************)
(* A model of the geosquare-datascience scripts: the remote asset fetchers *)
(* (BNPB ImageServer, Google Drive archive, Geofabrik PBF), the grid       *)
(* export, the raster annotators, the boundary extractor and the OSM       *)
(* extractor.  Every script is single-threaded; each specification below   *)
(* models one family of scripts, the operator feeding it inputs.           *)
(***************************************************************************)
EXTENDS Integers, Sequences, FiniteSets, TLC

VARIABLES
    \* ---- remote asset fetchers (phase1_data_hunt/bnpb, osm) ----
    disk,       \* files on disk: inarisk/*.tif, the zip, inarisk/inarisk/, the PBF
    reqs,       \* HTTP requests issued by the current invocation, per URL
    pc,         \* which script is running: "idle", "scrap_main"
    i,          \* risk_bnpb_scrap.main: loop index into HAZARD_LAYERS
    success,    \* risk_bnpb_scrap.main: counters
    failed,
    skipped,
    runs,       \* number of invocations started so far
    op,         \* the last function invoked from the command line
    ret,        \* its return value: "True", "False", or "None"
    pre,        \* the disk as it was when the last invocation started
    \* ---- grid export (phase4_grid_integration/export_grid_formats.py) ----
    tables,     \* the loaded input tables: tables.tangsel, tables.oku
    geoms,      \* tangsel_geoms, oku_geoms
    gdf,        \* tangsel_gdf, oku_gdf
    outputs,    \* the files written: outputs.csv, .geojson, .parquet, per region
    gpc,        \* position in the script body
    \* ---- raster annotators (phase2_satellite/scripts) ----
    rfile,      \* the GeoTIFF the scripts are run on: [name, year, region]
    raster,     \* its content: dtype, pixels, crs, transform, nodata, tags, ...
    oilpalm_data,   \* merge_oilpalm_lulc: the oil palm band reprojected on the LULC grid
    prev,       \* the raster as it was before the last function ran
    rop,        \* the last function run on the raster
    rcount,     \* how many functions have run
    hazard_out, \* what the last assign_hazard_metadata printed
    \* ---- boundary extraction (phase1_data_hunt/boundaries) ----
    layer_gdf,  \* the desa layer read from the GDB: columns, rows, crs
    bpc,        \* position in extract_boundaries_from_gdb.main
    tangsel_gdf,    \* what the two calls of extract_boundaries gave
    oku_gdf,
    summary,    \* the lines of the extraction summary
    \* ---- OSM extraction (phase1_data_hunt/osm) ----
    roads_raw,  \* per region, what osm_obj.get_network gives
    roads,      \* per region, what extract_roads returned
    opc,        \* position in extract_osm_data.main
    osm_outputs,    \* files written to OUTPUT_DIR
    printed,    \* rows of the final summary table
    fault,      \* the exception that ended main, "" if none
    osm_env,    \* the Indonesia PBF, the boundary GeoJSONs, the regional PBFs
    calls,      \* the functions main has called so far, in order
    \* ---- GDB folder check (phase1_data_hunt/boundaries/download_gdb.py) ----
    script_dir, \* the items of SCRIPT_DIR other than boundaries/, by name
    nested_dir, \* SCRIPT_DIR/boundaries: what it is and the items it holds
    gdb_pre,    \* both folders as they were before the last run of main
    gdb_ret,    \* what the last run of main did and returned
    \* ---- business POIs (extract_osm_data.extract_business_data) ----
    pois,       \* the POI table handed to extract_business_data
    biz,        \* the table it returned
    bizpc       \* "loaded" before the call, "done" after it

dlVars == <<disk, reqs, pc, i, success, failed, skipped, runs, op, ret, pre>>

gridVars == <<tables, geoms, gdf, outputs, gpc>>

rasterVars == <<rfile, raster, oilpalm_data, prev, rop, rcount, hazard_out>>

bndVars == <<layer_gdf, bpc, tangsel_gdf, oku_gdf, summary>>

osmVars == <<roads_raw, roads, opc, osm_outputs, printed, fault, osm_env, calls>>

gdbVars == <<script_dir, nested_dir, gdb_pre, gdb_ret>>

bizVars == <<pois, biz, bizpc>>

vars == <<dlVars, gridVars, rasterVars, bndVars, osmVars, gdbVars, bizVars>>

notDl == <<gridVars, rasterVars, bndVars, osmVars, gdbVars, bizVars>>

notGrid == <<dlVars, rasterVars, bndVars, osmVars, gdbVars, bizVars>>

notRaster == <<dlVars, gridVars, bndVars, osmVars, gdbVars, bizVars>>

notBnd == <<dlVars, gridVars, rasterVars, osmVars, gdbVars, bizVars>>

notOsm == <<dlVars, gridVars, rasterVars, bndVars, gdbVars, bizVars>>

notGdb == <<dlVars, gridVars, rasterVars, bndVars, osmVars, bizVars>>

notBiz == <<dlVars, gridVars, rasterVars, bndVars, osmVars, gdbVars>>

(***************************************************************************)
(* Bounds of the model.                                                    *)
(***************************************************************************)
MaxLayers == 2      \* how many entries of HAZARD_LAYERS are modelled
BodyLen == 2        \* chunks in a complete response body
MaxRuns == 2        \* invocations per behaviour
MaxRows == 2        \* rows of an input grid table
MaxPixels == 2      \* pixels of a raster band
MaxOps == 2         \* annotator functions run on one raster
MaxCols == 2        \* attribute columns of the boundary layer
MaxFeatures == 2    \* features of the boundary layer
MaxPois == 2        \* rows of a POI table
MaxRoads == 2       \* road segments in a region's bounding box

(***************************************************************************)
(* Remote asset fetchers.                                                  *)
(***************************************************************************)
AllHazardLayers ==
    << "inarisk_hazard_floods", "inarisk_hazard_drought",
       "inarisk_hazard_landslide", "inarisk_hazard_earthquake",
       "inarisk_hazard_extreme_weather", "inarisk_hazard_land_forest_fire" >>

NumLayers == IF MaxLayers < Len(AllHazardLayers) THEN MaxLayers ELSE Len(AllHazardLayers)

HAZARD_LAYERS == SubSeq(AllHazardLayers, 1, NumLayers)

\* download_risk_bnpb.EXPECTED_FILES: the same names with ".tif"; a file
\* inarisk/<layer>.tif is keyed by <layer> in both scripts.
EXPECTED_FILES == HAZARD_LAYERS

Layers == { HAZARD_LAYERS[k] : k \in 1..Len(HAZARD_LAYERS) }

\* A file: whether the path exists and the chunks it holds.
NoFile == [exists |-> FALSE, data |-> << >>]

\* The body a server sends for an asset, in chunks of iter_content.
Body == [k \in 1..BodyLen |-> k]

Written(n) == [exists |-> TRUE, data |-> SubSeq(Body, 1, n)]

\* A file left by an earlier session (module docstring: "Saya sudah
\* download sebelumnya"); its content is not the current server body.
OldFile == [exists |-> TRUE, data |-> << 0 >>]

\* Content-Type headers, as the words a substring test can find in them.
CTypes ==
    { << "image", "tiff" >>, << "application", "octet", "stream" >>,
      << "text", "html" >>, << >> }

HasWord(ctype, w) == \E k \in 1..Len(ctype) : ctype[k] = w

\* What requests.get can meet: a connection error, an HTTP error status, or
\* a 200 response whose body arrives whole (delivered = BodyLen) or breaks
\* after `delivered` chunks (iter_content raises a RequestException).
Responses ==
    { [conn_ok |-> FALSE, status |-> 0, ctype |-> << >>, delivered |-> 0] }
    \cup { [conn_ok |-> TRUE, status |-> s, ctype |-> c, delivered |-> 0]
           : s \in {404, 503}, c \in { << "text", "html" >>, << "image", "tiff" >> } }
    \cup { [conn_ok |-> TRUE, status |-> 200, ctype |-> c, delivered |-> d]
           : c \in CTypes, d \in 0..BodyLen }

RaisesForStatus(resp) == resp.status >= 400

\* risk_bnpb_scrap.download_layer, line 88: 'image' in content_type or ...
IsImageType(ctype) ==
    HasWord(ctype, "image") \/ HasWord(ctype, "tiff") \/ HasWord(ctype, "octet")

Urls == Layers \cup {"gdrive", "geofabrik"}

NoRequests == [u \in Urls |-> 0]

\* How download_layer sees a response, lines 83-88: the connection failed,
\* raise_for_status raised, the Content-Type is no image, or it is one.
ResponseKind(resp) ==
    IF ~resp.conn_ok THEN "connection_error"
    ELSE IF RaisesForStatus(resp) THEN "http_error"
    ELSE IF ~IsImageType(resp.ctype) THEN "not_image"
    ELSE "image"

\* download_layer reporting success whatever happened to the request.
download_layer_swallow(d, layer_name, resp) ==
    IF d.tif[layer_name].exists
    THEN [disk |-> d, ret |-> TRUE, requested |-> FALSE]
    ELSE IF ~resp.conn_ok \/ RaisesForStatus(resp)
    THEN [disk |-> d, ret |-> TRUE, requested |-> TRUE]
    ELSE IF IsImageType(resp.ctype)
    THEN [disk |-> [d EXCEPT !.tif[layer_name] = Written(resp.delivered)],
          ret |-> TRUE, requested |-> TRUE]
    ELSE [disk |-> d, ret |-> TRUE, requested |-> TRUE]

\* download_layer opening the target file before it looks at the
\* Content-Type.
download_layer_eager(d, layer_name, resp) ==
    IF d.tif[layer_name].exists
    THEN [disk |-> d, ret |-> TRUE, requested |-> FALSE]
    ELSE IF ~resp.conn_ok \/ RaisesForStatus(resp)
    THEN [disk |-> d, ret |-> FALSE, requested |-> TRUE]
    ELSE IF IsImageType(resp.ctype)
    THEN [disk |-> [d EXCEPT !.tif[layer_name] = Written(resp.delivered)],
          ret |-> (resp.delivered = BodyLen),
          requested |-> TRUE]
    ELSE [disk |-> [d EXCEPT !.tif[layer_name] = Written(0)],
          ret |-> FALSE, requested |-> TRUE]

\* download_layer without the "Skip jika file sudah ada" test of lines 73-77.
download_layer_refetch(d, layer_name, resp) ==
    IF ~resp.conn_ok \/ RaisesForStatus(resp)
    THEN [disk |-> d, ret |-> FALSE, requested |-> TRUE]
    ELSE IF IsImageType(resp.ctype)
    THEN [disk |-> [d EXCEPT !.tif[layer_name] = Written(resp.delivered)],
          ret |-> (resp.delivered = BodyLen),
          requested |-> TRUE]
    ELSE [disk |-> d, ret |-> FALSE, requested |-> TRUE]

\* download_layer writing the image it received to a scratch name instead of
\* <layer>.tif, and still reporting success.
download_layer_discard(d, layer_name, resp) ==
    IF d.tif[layer_name].exists
    THEN [disk |-> d, ret |-> TRUE, requested |-> FALSE]
    ELSE IF ~resp.conn_ok \/ RaisesForStatus(resp)
    THEN [disk |-> d, ret |-> FALSE, requested |-> TRUE]
    ELSE IF IsImageType(resp.ctype)
    THEN [disk |-> d, ret |-> (resp.delivered = BodyLen), requested |-> TRUE]
    ELSE [disk |-> d, ret |-> FALSE, requested |-> TRUE]

\* risk_bnpb_scrap.download_layer(layer_name, output_dir) on disk d, the
\* server answering resp: the disk afterwards, the value returned and
\* whether requests.get was called.
download_layer(d, layer_name, resp) ==
    IF d.tif[layer_name].exists
    THEN [disk |-> d, ret |-> TRUE, requested |-> FALSE]
    ELSE IF ~resp.conn_ok \/ RaisesForStatus(resp)
    THEN [disk |-> d, ret |-> FALSE, requested |-> TRUE]
    ELSE IF IsImageType(resp.ctype)
    THEN \* open(filepath, 'wb') creates the file; each chunk received is
         \* written; a RequestException while streaming is caught by the
         \* except clause, which returns False and removes nothing.
         [disk |-> [d EXCEPT !.tif[layer_name] = Written(resp.delivered)],
          ret |-> (resp.delivered = BodyLen),
          requested |-> TRUE]
    ELSE [disk |-> d, ret |-> FALSE, requested |-> TRUE]

\* What the downloaded Google Drive archive can hold.
Archives == {"flat", "nested", "not_zip", "corrupt_member"}

NoNested == [exists |-> FALSE, files |-> [l \in Layers |-> NoFile]]

\* zip_ref.extractall(OUTPUT_DIR) for a well-formed archive.
ExtractAll(d, archive) ==
    IF archive = "flat"
    THEN [d EXCEPT !.tif = [l \in Layers |-> Written(BodyLen)]]
    ELSE [d EXCEPT !.nested =
            [exists |-> TRUE, files |-> [l \in Layers |-> Written(BodyLen)]]]

\* Lines 94-101: move every item of inarisk/inarisk/ up, then rmdir.
MoveNestedUp(d) ==
    IF d.nested.exists
    THEN [d EXCEPT !.tif = [l \in Layers |->
                               IF d.nested.files[l].exists
                               THEN d.nested.files[l] ELSE d.tif[l]],
                   !.nested = NoNested]
    ELSE d

\* A cleanup that leaves bnpb_risk_data.zip where it is.
CleanupZip_keep(d) == d

\* ZIP_FILE.unlink() of line 108, and the except clause of lines 113-117:
\* remove the zip if it exists.
CleanupZip(d) == [d EXCEPT !.zip = NoFile]

\* download_risk_bnpb.download_bnpb_data().
download_bnpb_data(d, resp, archive) ==
    IF \E l \in Layers : d.tif[l].exists
    THEN [disk |-> d, ret |-> TRUE, requested |-> FALSE]
    ELSE IF ~resp.conn_ok \/ RaisesForStatus(resp)
    THEN [disk |-> CleanupZip(d), ret |-> FALSE, requested |-> TRUE]
    ELSE IF resp.delivered < BodyLen
    THEN \* the zip holds resp.delivered chunks when iter_content raises
         [disk |-> CleanupZip([d EXCEPT !.zip = Written(resp.delivered)]),
          ret |-> FALSE, requested |-> TRUE]
    ELSE LET z == [d EXCEPT !.zip = Written(BodyLen)] IN
         IF archive = "not_zip"
         THEN [disk |-> CleanupZip(z), ret |-> FALSE, requested |-> TRUE]
         ELSE IF archive = "corrupt_member"
         THEN \* extractall raises on the first member, whose file it has
              \* already opened for writing under inarisk/
              [disk |-> CleanupZip([z EXCEPT !.tif[HAZARD_LAYERS[1]] =
                                                Written(BodyLen - 1)]),
               ret |-> FALSE, requested |-> TRUE]
         ELSE [disk |-> CleanupZip(MoveNestedUp(ExtractAll(z, archive))),
               ret |-> TRUE, requested |-> TRUE]

\* extract_osm_data.download_indonesia_pbf().
download_indonesia_pbf(d, resp) ==
    IF d.pbf.exists
    THEN [disk |-> d, ret |-> TRUE, requested |-> FALSE]
    ELSE IF ~resp.conn_ok \/ RaisesForStatus(resp)
    THEN [disk |-> [d EXCEPT !.pbf = NoFile], ret |-> FALSE, requested |-> TRUE]
    ELSE IF resp.delivered < BodyLen
    THEN \* except Exception: INDONESIA_PBF.unlink() removes the partial file
         [disk |-> [d EXCEPT !.pbf = NoFile], ret |-> FALSE, requested |-> TRUE]
    ELSE [disk |-> [d EXCEPT !.pbf = Written(BodyLen)],
          ret |-> TRUE, requested |-> TRUE]

PyBool(b) == IF b THEN "True" ELSE "False"

Requested(u, r) == [NoRequests EXCEPT ![u] = IF r.requested THEN 1 ELSE 0]

DlInit ==
    /\ disk \in [tif : [Layers -> {NoFile, OldFile}],
                 zip : {NoFile},
                 nested : {NoNested},
                 pbf : {NoFile, OldFile}]
    /\ reqs = NoRequests
    /\ pc = "idle"
    /\ i = 1
    /\ success = 0
    /\ failed = 0
    /\ skipped = 0
    /\ runs = 0
    /\ op = [name |-> "none", arg |-> "none", resp |-> "none"]
    /\ ret = "None"
    /\ pre = disk

\* risk_bnpb_scrap.main, lines 142-176: up to the download loop.
StartScrapMain ==
    /\ pc = "idle"
    /\ runs < MaxRuns
    /\ pc' = "scrap_main"
    /\ runs' = runs + 1
    /\ i' = 1
    /\ success' = 0
    /\ failed' = 0
    /\ skipped' = 0
    /\ reqs' = NoRequests
    /\ op' = [name |-> "scrap_main", arg |-> "none", resp |-> "none"]
    /\ ret' = "None"
    /\ pre' = disk
    /\ UNCHANGED disk
    /\ UNCHANGED notDl

\* risk_bnpb_scrap.main, lines 178-193: one iteration of the loop.
ScrapMainStep ==
    /\ pc = "scrap_main"
    /\ i <= Len(HAZARD_LAYERS)
    /\ LET layer == HAZARD_LAYERS[i] IN
       IF disk.tif[layer].exists
       THEN /\ skipped' = skipped + 1
            /\ UNCHANGED <<disk, reqs, success, failed>>
       ELSE \E resp \in Responses :
              LET r == download_layer(disk, layer, resp) IN
              /\ disk' = r.disk
              /\ reqs' = [reqs EXCEPT ![layer] = @ + (IF r.requested THEN 1 ELSE 0)]
              /\ success' = IF r.ret THEN success + 1 ELSE success
              /\ failed' = IF r.ret THEN failed ELSE failed + 1
              /\ UNCHANGED skipped
    /\ i' = i + 1
    /\ UNCHANGED <<pc, runs, op, ret, pre>>
    /\ UNCHANGED notDl

\* risk_bnpb_scrap.main, lines 195-210: the summary, then the script ends.
ScrapMainFinish ==
    /\ pc = "scrap_main"
    /\ i > Len(HAZARD_LAYERS)
    /\ pc' = "idle"
    /\ UNCHANGED <<disk, reqs, i, success, failed, skipped, runs, op, ret, pre>>
    /\ UNCHANGED notDl

\* download_layer called on its own for one layer.
CallDownloadLayer ==
    /\ pc = "idle"
    /\ runs < MaxRuns
    /\ \E layer \in Layers, resp \in Responses :
         LET r == download_layer(disk, layer, resp) IN
         /\ disk' = r.disk
         /\ reqs' = Requested(layer, r)
         /\ op' = [name |-> "download_layer", arg |-> layer, resp |-> ResponseKind(resp)]
         /\ ret' = PyBool(r.ret)
    /\ runs' = runs + 1
    /\ pre' = disk
    /\ UNCHANGED <<pc, i, success, failed, skipped>>
    /\ UNCHANGED notDl

\* download_risk_bnpb.main: one call of download_bnpb_data.
CallDownloadBnpb ==
    /\ pc = "idle"
    /\ runs < MaxRuns
    /\ \E resp \in Responses, archive \in Archives :
         LET r == download_bnpb_data(disk, resp, archive) IN
         /\ disk' = r.disk
         /\ reqs' = Requested("gdrive", r)
         /\ ret' = PyBool(r.ret)
         /\ op' = [name |-> "download_bnpb_data", arg |-> "none", resp |-> "none"]
    /\ runs' = runs + 1
    /\ pre' = disk
    /\ UNCHANGED <<pc, i, success, failed, skipped>>
    /\ UNCHANGED notDl

\* extract_osm_data.main, step 1: one call of download_indonesia_pbf.
CallDownloadPbf ==
    /\ pc = "idle"
    /\ runs < MaxRuns
    /\ \E resp \in Responses :
         LET r == download_indonesia_pbf(disk, resp) IN
         /\ disk' = r.disk
         /\ reqs' = Requested("geofabrik", r)
         /\ ret' = PyBool(r.ret)
         /\ op' = [name |-> "download_indonesia_pbf", arg |-> "none", resp |-> "none"]
    /\ runs' = runs + 1
    /\ pre' = disk
    /\ UNCHANGED <<pc, i, success, failed, skipped>>
    /\ UNCHANGED notDl

NextDownload ==
    \/ StartScrapMain
    \/ ScrapMainStep
    \/ ScrapMainFinish
    \/ CallDownloadLayer
    \/ CallDownloadBnpb
    \/ CallDownloadPbf

\* The fetchers when no fetcher script is run.
DlIdle ==
    /\ disk = [tif |-> [l \in Layers |-> NoFile], zip |-> NoFile,
               nested |-> NoNested, pbf |-> NoFile]
    /\ reqs = NoRequests
    /\ pc = "off"
    /\ i = 1
    /\ success = 0
    /\ failed = 0
    /\ skipped = 0
    /\ runs = 0
    /\ op = [name |-> "none", arg |-> "none", resp |-> "none"]
    /\ ret = "None"
    /\ pre = disk

(***************************************************************************)
(* Grid export: export_grid_formats.py.  Longitudes and latitudes are      *)
(* exact fractions of a degree, [num, den] with den > 0.                   *)
(***************************************************************************)
Regions == {"tangsel", "oku"}

GRID_SIZE == 50

Rat(n, d) == [num |-> n, den |-> d]

\* Sums and differences; coordinates and the half size share a denominator.
RatAdd(a, b) ==
    IF a.den = b.den THEN Rat(a.num + b.num, a.den)
    ELSE Rat(a.num * b.den + b.num * a.den, a.den * b.den)

RatSub(a, b) ==
    IF a.den = b.den THEN Rat(a.num - b.num, a.den)
    ELSE Rat(a.num * b.den - b.num * a.den, a.den * b.den)

RatEq(a, b) == IF a.den = b.den THEN a.num = b.num ELSE a.num * b.den = b.num * a.den

RatLess(a, b) == IF a.den = b.den THEN a.num < b.num ELSE a.num * b.den < b.num * a.den

\* A table cell: a number, or the missing value NaN.
NaN == [t |-> "nan", v |-> 0]

Num(n) == [t |-> "num", v |-> n]

\* Rows of the integrated grids: centroids near Tangerang Selatan
\* (106.7 E, 6.3 S) and Ogan Komering Ulu (104.0 E, 4.1 S).
RowsOf(r) ==
    IF r = "tangsel"
    THEN [lon : {Rat(11843700, 111000), Rat(11843750, 111000)},
          lat : {Rat(-699300, 111000)},
          lulc_class : {Num(7), NaN}]
    ELSE [lon : {Rat(11544000, 111000)},
          lat : {Rat(-455100, 111000), Rat(-455050, 111000)},
          lulc_class : {Num(5), NaN}]

TablesOf(r) == UNION { [1..n -> RowsOf(r)] : n \in 0..MaxRows }

\* The mutant of half_size_deg: the whole cell size instead of half of it.
half_size_deg_whole == Rat(GRID_SIZE, 111000)

\* Line 45: half_size_deg = 25 / 111000.
half_size_deg == Rat(25, 111000)

\* shapely.geometry.box(minx, miny, maxx, maxy): the ring of the rectangle,
\* counter-clockwise from (maxx, miny), closed on its first point.
box(minx, miny, maxx, maxy) ==
    << <<maxx, miny>>, <<maxx, maxy>>, <<minx, maxy>>, <<minx, miny>>,
       <<maxx, miny>> >>

\* The mutant of create_grid_geometry: the latitude taken for both axes.
create_grid_geometry_lat(df) ==
    [k \in 1..Len(df) |->
        box(RatSub(df[k].lat, half_size_deg), RatSub(df[k].lat, half_size_deg),
            RatAdd(df[k].lat, half_size_deg), RatAdd(df[k].lat, half_size_deg))]

\* create_grid_geometry(df), lines 37-59: one box per row, in row order.
create_grid_geometry(df) ==
    [k \in 1..Len(df) |->
        box(RatSub(df[k].lon, half_size_deg), RatSub(df[k].lat, half_size_deg),
            RatAdd(df[k].lon, half_size_deg), RatAdd(df[k].lat, half_size_deg))]

\* gpd.GeoDataFrame(df, geometry=geometries): the rows of df, each with the
\* geometry at its position.
GeoDataFrame(df, geometries) ==
    [k \in 1..Len(df) |-> [lon |-> df[k].lon, lat |-> df[k].lat,
                           lulc_class |-> df[k].lulc_class,
                           geometry |-> geometries[k]]]

\* A CSV field: the text of a number, or the empty field for NaN.
CsvField(c) == IF c.t = "nan" THEN [t |-> "empty", v |-> 0] ELSE [t |-> "text", v |-> c.v]

\* df.to_csv(path, index=False): one record per row, no geometry column.
to_csv(df) ==
    [k \in 1..Len(df) |-> [lon |-> CsvField(Num(df[k].lon)),
                           lat |-> CsvField(Num(df[k].lat)),
                           lulc_class |-> CsvField(df[k].lulc_class)]]

\* A GeoJSON property: a JSON number, or null for NaN.
JsonValue(c) == IF c.t = "nan" THEN [t |-> "null", v |-> 0] ELSE [t |-> "number", v |-> c.v]

\* The mutant of to_file: features whose lulc_class is missing are left out.
to_file_dropna(g) ==
    LET keep == { k \in 1..Len(g) : g[k].lulc_class.t # "nan" }
        F[n \in 0..Len(g)] ==
            IF n = 0 THEN << >>
            ELSE IF n \in keep
                 THEN Append(F[n - 1],
                        [properties |-> [lon |-> JsonValue(Num(g[n].lon)),
                                         lat |-> JsonValue(Num(g[n].lat)),
                                         lulc_class |-> JsonValue(g[n].lulc_class)],
                         geometry |-> g[n].geometry])
                 ELSE F[n - 1]
    IN F[Len(g)]

\* gdf.to_file(path, driver='GeoJSON'): one feature per row.
to_file(g) ==
    [k \in 1..Len(g) |->
        [properties |-> [lon |-> JsonValue(Num(g[k].lon)),
                         lat |-> JsonValue(Num(g[k].lat)),
                         lulc_class |-> JsonValue(g[k].lulc_class)],
         geometry |-> g[k].geometry]]

\* gdf.to_parquet(path): the columns as they are, geometry included.
to_parquet(g) == g

NoOutputs ==
    [csv |-> [r \in Regions |-> << >>],
     geojson |-> [r \in Regions |-> << >>],
     parquet |-> [r \in Regions |-> << >>]]

\* Lines 25-31: the two tables as pd.read_csv loaded them.
GridInit ==
    /\ tables \in [tangsel : TablesOf("tangsel"), oku : TablesOf("oku")]
    /\ geoms = [r \in Regions |-> << >>]
    /\ gdf = [r \in Regions |-> << >>]
    /\ outputs = NoOutputs
    /\ gpc = "loaded"

GridIdle ==
    /\ tables = [tangsel |-> << >>, oku |-> << >>]
    /\ geoms = [r \in Regions |-> << >>]
    /\ gdf = [r \in Regions |-> << >>]
    /\ outputs = NoOutputs
    /\ gpc = "off"

\* Lines 61-69.
CreateGeometries ==
    /\ gpc = "loaded"
    /\ geoms' = [r \in Regions |-> create_grid_geometry(tables[r])]
    /\ gdf' = [r \in Regions |-> GeoDataFrame(tables[r], geoms'[r])]
    /\ gpc' = "geometries"
    /\ UNCHANGED <<tables, outputs>>
    /\ UNCHANGED notGrid

\* Lines 81-84.
ExportCsv ==
    /\ gpc = "geometries"
    /\ outputs' = [outputs EXCEPT !.csv = [r \in Regions |-> to_csv(tables[r])]]
    /\ gpc' = "csv"
    /\ UNCHANGED <<tables, geoms, gdf>>
    /\ UNCHANGED notGrid

\* Lines 91-99.
ExportGeoJson ==
    /\ gpc = "csv"
    /\ outputs' = [outputs EXCEPT !.geojson = [r \in Regions |-> to_file(gdf[r])]]
    /\ gpc' = "geojson"
    /\ UNCHANGED <<tables, geoms, gdf>>
    /\ UNCHANGED notGrid

\* Lines 104-110.
ExportParquet ==
    /\ gpc = "geojson"
    /\ outputs' = [outputs EXCEPT !.parquet = [r \in Regions |-> to_parquet(gdf[r])]]
    /\ gpc' = "done"
    /\ UNCHANGED <<tables, geoms, gdf>>
    /\ UNCHANGED notGrid

NextGrid ==
    \/ CreateGeometries
    \/ ExportCsv
    \/ ExportGeoJson
    \/ ExportParquet

(***************************************************************************)
(* Raster annotators: lulc_metadata.py, merge_oilpalm_lulc.py,             *)
(* assign_raster_metadata.py.  A band is a sequence of MaxPixels pixels.   *)
(***************************************************************************)
LulcFiles == {"lulc_tangsel_2025.tif", "lulc_oku_2025.tif"}

\* assign_raster_metadata.main, lines 176-181.
nightlights_files ==
    { [name |-> "tangsel_nightlights_2020.tif", year |-> "2020", region |-> "Tangerang Selatan"],
      [name |-> "tangsel_nightlights_2025.tif", year |-> "2025", region |-> "Tangerang Selatan"],
      [name |-> "oku_nightlights_2020.tif", year |-> "2020", region |-> "Ogan Komering Ulu"],
      [name |-> "oku_nightlights_2025.tif", year |-> "2025", region |-> "Ogan Komering Ulu"] }

\* Hazard rasters by file name, with the layer name that
\* filename.replace('.tif', '') gives; the last one is no InaRISK layer.
HazardFiles ==
    { [name |-> "inarisk_hazard_floods.tif", layer |-> "inarisk_hazard_floods"],
      [name |-> "inarisk_hazard_drought.tif", layer |-> "inarisk_hazard_drought"],
      [name |-> "hazard_composite.tif", layer |-> "hazard_composite"] }

\* The keys of HAZARD_METADATA, lines 65-96.
HAZARD_METADATA == { AllHazardLayers[k] : k \in 1..Len(AllHazardLayers) }

Bands(values) == [1..MaxPixels -> values]

\* Pixel values by data type: class codes and the ends of the range for
\* uint8; values below 0 and above 255 for int16.
Uint8Values == {0, 1, 5, 12, 255}

Int16Values == {-1, 0, 5, 300}

\* Radiance (nW/cm2/sr) and hazard index (in thousandths) of float32 bands.
RadianceValues == {0, 10, 60}

\* 0 is "no data"; 1500 is a value above the documented 0-1 range.
HazardValues == {0, 150, 300, 600, 1000, 1500}

GeeTags == { <<"source", "Google Earth Engine export">> }

RasterOf(dtype, pixels, crs) ==
    [dtype |-> dtype, pixels |-> pixels, crs |-> crs, transform |-> "affine",
     nodata |-> "None", desc |-> "None", colormap |-> "None", tags |-> GeeTags,
     band_tags |-> {}]

CrsValues == {"EPSG:4326", "EPSG:32748"}

LulcRasters ==
    { RasterOf("uint8", px, c) : px \in Bands(Uint8Values), c \in CrsValues }
    \cup { RasterOf("int16", px, c) : px \in Bands(Int16Values), c \in CrsValues }

\* dst.update_tags(**new): the keys given replace the tags of those names.
update_tags(tags, new) ==
    { t \in tags : \A n \in new : n[1] # t[1] } \cup new

\* numpy: data.astype('uint8') of an integer array keeps the low eight bits.
astype_uint8(pixels) == [k \in 1..Len(pixels) |-> pixels[k] % 256]

\* The tags lulc_metadata.py writes, lines 79-93.
LulcBandTags ==
    { <<"class_names", "1:Water,...,11:Rangeland">>,
      <<"description", "Land Use Land Cover Classification 2025">>,
      <<"method", "Random Forest - Sentinel-2">>,
      <<"source", "Sentinel-2 SR Harmonized">>,
      <<"resolution", "10m">> }

SoftwareTags ==
    { <<"AREA_OR_POINT", "Area">>,
      <<"TIFFTAG_SOFTWARE", "Google Earth Engine + rasterio">> }

\* lulc_metadata.assign_lulc_metadata(input_tif): the file is re-created
\* ('w') from src.meta with dtype uint8, nodata 0, and the band cast to
\* uint8 is written into it.
assign_lulc_metadata(r) ==
    [dtype |-> "uint8",
     pixels |-> astype_uint8(r.pixels),
     crs |-> r.crs,
     transform |-> r.transform,
     nodata |-> "0",
     desc |-> "LULC Classification",
     colormap |-> "LULC_COLORS",
     tags |-> SoftwareTags,
     band_tags |-> LulcBandTags]

\* The mutant of the oil palm mask: class 3 merged as well.
oilpalm_mask_any(v) == v = 1 \/ v = 2 \/ v = 3

\* merge_oilpalm_lulc, line 82: (oilpalm_data == 1) | (oilpalm_data == 2).
oilpalm_mask(v) == v = 1 \/ v = 2

MergeBandTags ==
    { <<"class_names", "1:Water,...,12:Oil Palm">>,
      <<"description", "Land Use Land Cover Classification 2025 (with Oil Palm overlay)">>,
      <<"method", "Random Forest - Sentinel-2 + Oil Palm overlay from BIOPAMA">>,
      <<"source", "Sentinel-2 SR Harmonized + BIOPAMA Oil Palm">>,
      <<"resolution", "10m">>,
      <<"oil_palm_source", "BIOPAMA Closed-canopy Oil Palm (Industrial + Smallholder)">> }

\* merge_oilpalm_lulc.merge_oilpalm_to_lulc(): lulc_data[oilpalm_mask] = 12,
\* then the file is re-created with dtype uint8 and the band written.
merge_oilpalm_to_lulc(r, oilpalm) ==
    [dtype |-> "uint8",
     pixels |-> [k \in 1..Len(r.pixels) |->
                    IF oilpalm_mask(oilpalm[k]) THEN 12 ELSE r.pixels[k]],
     crs |-> r.crs,
     transform |-> r.transform,
     nodata |-> "0",
     desc |-> "LULC Classification with Oil Palm",
     colormap |-> "LULC_COLORS",
     tags |-> SoftwareTags,
     band_tags |-> MergeBandTags]

\* assign_raster_metadata.assign_nightlights_metadata(input_tif, year,
\* region): the file is opened 'r+'; tags and band description are set.
assign_nightlights_metadata(r, year, region) ==
    [r EXCEPT
       !.tags = update_tags(@,
           { <<"description", <<"VIIRS Day/Night Band - Nighttime Radiance", year>> >>,
             <<"source", "NASA VIIRS DNB">>,
             <<"year", year>>,
             <<"region", region>>,
             <<"resolution", "500m (resampled to 10m)">>,
             <<"unit", "nanoWatts/cm2/sr">>,
             <<"date_range", <<"date_range", year>> >>,
             <<"processing", "Cloud-free median composite">>,
             <<"interpretation", "0=rural/dark, 10=residential, 30=urban, 60+=dense urban/industrial">> }),
       !.desc = <<"Night Lights", year>>]

\* assign_hazard_metadata without the test of lines 112-114: whatever the
\* file is called, it is opened and tagged.
assign_hazard_metadata_any(r, layer_name) ==
    [r EXCEPT
       !.tags = update_tags(@,
           { <<"name", <<"name", layer_name>> >>,
             <<"source", "BNPB InaRISK Portal">>,
             <<"year", "2023">> }),
       !.desc = <<"name", layer_name>>]

\* The mutant of assign_hazard_metadata: the band is written back as uint8,
\* the way lulc_metadata.py does.
assign_hazard_metadata_rewrite(r, layer_name) ==
    IF layer_name \notin HAZARD_METADATA
    THEN r
    ELSE [r EXCEPT !.dtype = "uint8",
                   !.pixels = [k \in 1..Len(r.pixels) |-> r.pixels[k] \div 1000],
                   !.desc = <<"name", layer_name>>]

\* assign_raster_metadata.assign_hazard_metadata(input_tif), lines 105-156.
assign_hazard_metadata(r, layer_name) ==
    IF layer_name \notin HAZARD_METADATA
    THEN r
    ELSE [r EXCEPT
            !.tags = update_tags(@,
                { <<"name", <<"name", layer_name>> >>,
                  <<"name_id", <<"name_id", layer_name>> >>,
                  <<"description", <<"description", layer_name>> >>,
                  <<"source", "BNPB InaRISK Portal">>,
                  <<"year", "2023">>,
                  <<"scale", "0-1 normalized (0=low risk, 1=high risk)">>,
                  <<"classification_low", "0.0 - 0.3 (Low/Rendah)">>,
                  <<"classification_moderate", "0.3 - 0.6 (Moderate/Sedang)">>,
                  <<"classification_high", "0.6 - 1.0 (High/Tinggi)">>,
                  <<"interpretation", "Higher value = higher risk. Use for investment risk assessment.">> }),
            !.desc = <<"name", layer_name>>]

\* Line 139: valid_data = data[data > 0].
valid_data(data) == SelectSeq(data, LAMBDA v : v > 0)

\* np.sum(mask): how many elements of the array lie in the class.
risk_low(valid) ==
    Cardinality({ k \in 1..Len(valid) : valid[k] >= 0 /\ valid[k] < 300 })

risk_moderate(valid) ==
    Cardinality({ k \in 1..Len(valid) : valid[k] >= 300 /\ valid[k] < 600 })

\* The high class with its upper end left out.
risk_high_open(valid) ==
    Cardinality({ k \in 1..Len(valid) : valid[k] >= 600 /\ valid[k] < 1000 })

risk_high(valid) ==
    Cardinality({ k \in 1..Len(valid) : valid[k] >= 600 /\ valid[k] <= 1000 })

\* Nothing printed by assign_hazard_metadata.
NoReport ==
    [warned |-> FALSE, opened |-> FALSE, no_valid |-> FALSE,
     low |-> 0, moderate |-> 0, high |-> 0, total |-> 0]

\* What assign_hazard_metadata prints: the warning of line 113, or, once the
\* raster is open, the risk distribution of lines 137-154.
hazard_report(r, layer_name) ==
    IF layer_name \notin HAZARD_METADATA
    THEN [NoReport EXCEPT !.warned = TRUE]
    ELSE LET valid == valid_data(r.pixels) IN
         IF Len(valid) > 0
         THEN [NoReport EXCEPT !.opened = TRUE,
                               !.low = risk_low(valid),
                               !.moderate = risk_moderate(valid),
                               !.high = risk_high(valid),
                               !.total = Len(valid)]
         ELSE [NoReport EXCEPT !.opened = TRUE, !.no_valid = TRUE]

NoOilPalm == [k \in 1..MaxPixels |-> 0]

\* The reprojected oil palm band is uint8: 0 none, 1 and 2 closed-canopy
\* oil palm, 3 other.
OilPalmValues == {0, 1, 2, 3}

RasterInit ==
    /\ \/ /\ rfile \in [name : LulcFiles, year : {"none"}, region : {"none"}]
          /\ raster \in LulcRasters
          /\ oilpalm_data \in IF rfile.name = "lulc_oku_2025.tif"
                              THEN Bands(OilPalmValues) ELSE {NoOilPalm}
       \/ /\ rfile \in nightlights_files
          /\ raster \in { RasterOf("float32", px, c) :
                            px \in Bands(RadianceValues), c \in CrsValues }
          /\ oilpalm_data = NoOilPalm
       \/ /\ rfile \in { [name |-> h.name, year |-> "none", region |-> "none"] : h \in HazardFiles }
          /\ raster \in { RasterOf("float32", px, c) :
                            px \in Bands(HazardValues), c \in CrsValues }
          /\ oilpalm_data = NoOilPalm
    /\ prev = raster
    /\ rop = "none"
    /\ rcount = 0
    /\ hazard_out = NoReport

RasterIdle ==
    /\ rfile = [name |-> "none", year |-> "none", region |-> "none"]
    /\ raster = RasterOf("uint8", NoOilPalm, "EPSG:4326")
    /\ oilpalm_data = NoOilPalm
    /\ prev = raster
    /\ rop = "off"
    /\ rcount = 0
    /\ hazard_out = NoReport

\* lulc_metadata.py, lines 109-124: one of the two calls.
AssignLulcMetadata ==
    /\ rfile.name \in LulcFiles
    /\ rcount < MaxOps
    /\ raster' = assign_lulc_metadata(raster)
    /\ prev' = raster
    /\ rop' = "assign_lulc_metadata"
    /\ rcount' = rcount + 1
    /\ hazard_out' = NoReport
    /\ UNCHANGED <<rfile, oilpalm_data>>
    /\ UNCHANGED notRaster

\* merge_oilpalm_lulc.py, run on the uint8 class raster of OKU.
MergeOilPalm ==
    /\ rfile.name = "lulc_oku_2025.tif"
    /\ raster.dtype = "uint8"
    /\ rcount < MaxOps
    /\ raster' = merge_oilpalm_to_lulc(raster, oilpalm_data)
    /\ prev' = raster
    /\ rop' = "merge_oilpalm_to_lulc"
    /\ rcount' = rcount + 1
    /\ hazard_out' = NoReport
    /\ UNCHANGED <<rfile, oilpalm_data>>
    /\ UNCHANGED notRaster

\* assign_raster_metadata.main, lines 183-188.
AssignNightlights ==
    /\ rfile \in nightlights_files
    /\ rcount < MaxOps
    /\ raster' = assign_nightlights_metadata(raster, rfile.year, rfile.region)
    /\ prev' = raster
    /\ rop' = "assign_nightlights_metadata"
    /\ rcount' = rcount + 1
    /\ hazard_out' = NoReport
    /\ UNCHANGED <<rfile, oilpalm_data>>
    /\ UNCHANGED notRaster

\* assign_raster_metadata.assign_hazard_metadata on a hazard raster.
AssignHazard ==
    /\ \E h \in HazardFiles :
         /\ rfile.name = h.name
         /\ raster' = assign_hazard_metadata(raster, h.layer)
         /\ hazard_out' = hazard_report(raster, h.layer)
    /\ rcount < MaxOps
    /\ prev' = raster
    /\ rop' = "assign_hazard_metadata"
    /\ rcount' = rcount + 1
    /\ UNCHANGED <<rfile, oilpalm_data>>
    /\ UNCHANGED notRaster

NextRaster ==
    \/ AssignLulcMetadata
    \/ MergeOilPalm
    \/ AssignNightlights
    \/ AssignHazard

(***************************************************************************)
(* Boundary extraction: extract_boundaries_from_gdb.py.  A column name is  *)
(* the sequence of its characters; a region name is the sequence of its    *)
(* words.                                                                  *)
(***************************************************************************)
LowerCase == << "a", "b", "d", "k", "m", "n", "o", "t" >>

UpperCase == << "A", "B", "D", "K", "M", "N", "O", "T" >>

\* str.upper(), character by character.
UpperChar(c) ==
    IF \E k \in 1..Len(LowerCase) : LowerCase[k] = c
    THEN UpperCase[CHOOSE k \in 1..Len(LowerCase) : LowerCase[k] = c]
    ELSE c

Upper(str) == [k \in 1..Len(str) |-> UpperChar(str[k])]

\* Python's `sub in str`.
Contains(str, sub) ==
    \E k \in 0..(Len(str) - Len(sub)) :
        \A j \in 1..Len(sub) : str[k + j] = sub[j]

EndsWith(str, sub) ==
    /\ Len(sub) <= Len(str)
    /\ \A j \in 1..Len(sub) : str[Len(str) - Len(sub) + j] = sub[j]

\* Attribute columns a desa layer can carry: name, dtype, and the kind of
\* value its cells hold.
ColumnPool ==
    { [name |-> << "W", "A", "D", "M", "K", "K" >>, dtype |-> "object", holds |-> "kabkota"],
      [name |-> << "W", "A", "D", "M", "K", "C" >>, dtype |-> "object", holds |-> "kecamatan"],
      [name |-> << "N", "A", "M", "O", "B", "J" >>, dtype |-> "object", holds |-> "desa"],
      [name |-> << "K", "D", "P", "K", "A", "B" >>, dtype |-> "object", holds |-> "code"],
      [name |-> << "n", "a", "m", "a", "_", "k", "a", "b" >>, dtype |-> "object", holds |-> "kabkota"],
      [name |-> << "K", "A", "B", "_", "I", "D" >>, dtype |-> "int64", holds |-> "number"],
      [name |-> << "O", "B", "J", "E", "C", "T", "I", "D" >>, dtype |-> "int64", holds |-> "number"] }

GeometryColumn ==
    [name |-> << "g", "e", "o", "m", "e", "t", "r", "y" >>, dtype |-> "geometry", holds |-> "geometry"]

\* The attribute columns in table order, distinct, the geometry column last.
Schemas ==
    { Append(cols, GeometryColumn) :
        cols \in { c \in UNION { [1..n -> ColumnPool] : n \in 1..MaxCols } :
                     \A a, b \in 1..Len(c) : a # b => c[a].name # c[b].name } }

Missing == << "<NA>" >>

\* Names of kabupaten/kota as the layer spells them; Missing is a null.
KabKotaNames ==
    { << "KOTA", "TANGERANG", "SELATAN" >>,
      << "Ogan", "Komering", "Ulu" >>,
      << "OGAN", "KOMERING", "ULU", "TIMUR" >>,
      Missing }

KecamatanNames == << "BATURAJA", "LUBUK" >>

\* A feature: its kabupaten/kota name and its kecamatan (numbered in
\* alphabetical order of their names).  The desa of OGAN KOMERING ULU, the
\* regency main dissolves, lie in two kecamatan.
Features ==
    { f \in [kabkota : KabKotaNames, kecamatan : 1..2] :
        f.kecamatan = 2 => f.kabkota = << "Ogan", "Komering", "Ulu" >> }

FeatureLists == UNION { [1..n -> Features] : n \in 0..MaxFeatures }

\* str.upper() of a cell, word by word.
UpperWord(w) ==
    IF w = "Ogan" THEN "OGAN"
    ELSE IF w = "Komering" THEN "KOMERING"
    ELSE IF w = "Ulu" THEN "ULU"
    ELSE w

UpperWords(cell) == [k \in 1..Len(cell) |-> UpperWord(cell[k])]

\* Lines 30-32.  A keyword is a regular expression: its words, and whether
\* it ends with "$".
TANGSEL_KEYWORDS == << [words |-> << "KOTA", "TANGERANG", "SELATAN" >>, dollar |-> FALSE] >>

\* The OKU keyword without its "$".
OKU_KEYWORDS_unanchored == << [words |-> << "OGAN", "KOMERING", "ULU" >>, dollar |-> FALSE] >>

OKU_KEYWORDS == << [words |-> << "OGAN", "KOMERING", "ULU" >>, dollar |-> TRUE] >>

\* The cell of a feature in a column, as text (for the numeric columns, the
\* cell is a number and has no text).
Cell(feature, col) ==
    IF col.holds = "kabkota" THEN feature.kabkota
    ELSE IF col.holds = "kecamatan" THEN << "KECAMATAN", KecamatanNames[feature.kecamatan] >>
    ELSE IF col.holds = "desa" THEN << "DESA" >>
    ELSE << "1674" >>

\* Series.str.upper().str.contains('|'.join(region_keywords), na=False,
\* regex=True) for one cell.
MatchesKeywords(cell, region_keywords) ==
    /\ cell # Missing
    /\ \E k \in 1..Len(region_keywords) :
         IF region_keywords[k].dollar
         THEN EndsWith(UpperWords(cell), region_keywords[k].words)
         ELSE Contains(UpperWords(cell), region_keywords[k].words)

\* Lines 80-82: the columns whose upper-cased name holds a name keyword
\* and not 'KD', as positions in table order.
NameKeywords ==
    { << "W", "A", "D", "M" >>, << "N", "A", "M", "A" >>,
      << "K", "A", "B" >>, << "K", "O", "T" >> }

\* name_cols without the 'KD' exclusion.
name_cols_keep_codes(columns) ==
    { c \in 1..Len(columns) :
        \E keyword \in NameKeywords : Contains(Upper(columns[c].name), keyword) }

name_cols(columns) ==
    { c \in 1..Len(columns) :
        /\ \E keyword \in NameKeywords : Contains(Upper(columns[c].name), keyword)
        /\ ~Contains(Upper(columns[c].name), << "K", "D" >>) }

\* gdf.select_dtypes(include=['object']).columns
object_cols(columns) == { c \in 1..Len(columns) : columns[c].dtype = "object" }

First(S) == CHOOSE c \in S : \A d \in S : c <= d

SelectRows(rows, keep(_)) ==
    LET F[n \in 0..Len(rows)] ==
          IF n = 0 THEN << >>
          ELSE IF keep(rows[n]) THEN Append(F[n - 1], rows[n]) ELSE F[n - 1]
    IN F[Len(rows)]

NoResult ==
    [raised |-> "", ret |-> "None", name_col |-> 0, warnings |-> {},
     filtered |-> << >>, rows |-> << >>, crs |-> "None", reprojected |-> FALSE,
     written |-> FALSE]

\* Dissolve leaving the filtered features as they are.
Dissolve_asis(columns, filtered, dissolve_by) == [rows |-> filtered, warned |-> FALSE]

\* Lines 104-130: the filtered features, dissolved by the first column
\* whose name holds dissolve_by (one feature per kecamatan, in sorted
\* order), or as they are.
Dissolve(columns, filtered, dissolve_by) ==
    IF dissolve_by = << >> THEN [rows |-> filtered, warned |-> FALSE]
    ELSE LET kec_cols == { c \in 1..Len(columns) :
                             Contains(Upper(columns[c].name), Upper(dissolve_by)) }
         IN IF kec_cols = {}
            THEN [rows |-> filtered, warned |-> TRUE]
            ELSE LET col == columns[First(kec_cols)]
                     keys == { Cell(filtered[k], col) : k \in 1..Len(filtered) }
                               \ {Missing}
                     firstOf(key) == First({ k \in 1..Len(filtered) :
                                               Cell(filtered[k], col) = key })
                     G[n \in 0..2] ==
                         IF n = 0 THEN << >>
                         ELSE IF col.holds = "kecamatan"
                              THEN IF << "KECAMATAN", KecamatanNames[n] >> \in keys
                                   THEN Append(G[n - 1], filtered[firstOf(<< "KECAMATAN", KecamatanNames[n] >>)])
                                   ELSE G[n - 1]
                              ELSE IF n = 1 /\ keys # {}
                                   THEN << filtered[firstOf(CHOOSE key \in keys : TRUE)] >>
                                   ELSE G[n - 1]
                 IN [rows |-> G[2], warned |-> FALSE]

\* Lines 132-135 with the reprojection left out.
EnsureWgs84_keep(crs) == [raised |-> "", crs |-> crs, reprojected |-> FALSE]

\* Lines 132-135: filtered.to_crs('EPSG:4326') unless the CRS is EPSG:4326
\* already; to_crs raises ValueError on a layer that has no CRS.
EnsureWgs84(crs) ==
    IF crs = "EPSG:4326" THEN [raised |-> "", crs |-> crs, reprojected |-> FALSE]
    ELSE IF crs = "None" THEN [raised |-> "ValueError", crs |-> crs, reprojected |-> FALSE]
    ELSE [raised |-> "", crs |-> "EPSG:4326", reprojected |-> TRUE]

\* extract_boundaries(gdb_path, layer_name, region_keywords,
\* output_filename, dissolve_by), lines 51-146.
extract_boundaries(layer, region_keywords, dissolve_by) ==
    LET columns == layer.columns
        wadmkk == { c \in 1..Len(columns) : columns[c].name = << "W", "A", "D", "M", "K", "K" >> }
        named == name_cols(columns)
        fallback == wadmkk = {} /\ named = {}
    IN IF fallback /\ object_cols(columns) = {}
       THEN \* select_dtypes(...).columns[0] on an empty index
            [NoResult EXCEPT !.raised = "IndexError",
                             !.warnings = {"Could not find name column"}]
       ELSE
       LET name_col == IF wadmkk # {} THEN First(wadmkk)
                       ELSE IF named # {} THEN First(named)
                       ELSE First(object_cols(columns))
           w1 == IF fallback THEN {"Could not find name column"} ELSE {}
       IN IF columns[name_col].dtype # "object"
          THEN \* .str on a column that holds no strings
               [NoResult EXCEPT !.raised = "AttributeError", !.name_col = name_col,
                                !.warnings = w1]
          ELSE
          LET keep(f) == MatchesKeywords(Cell(f, columns[name_col]), region_keywords)
              filtered == SelectRows(layer.rows, keep)
          IN IF Len(filtered) = 0
             THEN [NoResult EXCEPT !.name_col = name_col,
                                   !.warnings = w1 \cup {"No features found"}]
             ELSE LET d == Dissolve(columns, filtered, dissolve_by)
                      w2 == IF d.warned THEN {"Could not find dissolve column"} ELSE {}
                      wgs == EnsureWgs84(layer.crs)
                  IN IF wgs.raised # ""
                     THEN [NoResult EXCEPT !.raised = wgs.raised, !.name_col = name_col,
                                           !.warnings = w1 \cup w2,
                                           !.filtered = filtered]
                     ELSE [raised |-> "", ret |-> "gdf", name_col |-> name_col,
                           warnings |-> w1 \cup w2, filtered |-> filtered,
                           rows |-> d.rows,
                           crs |-> wgs.crs, reprojected |-> wgs.reprojected,
                           written |-> TRUE]

BndInit ==
    /\ layer_gdf \in [columns : Schemas, rows : FeatureLists,
                      crs : {"EPSG:4326", "EPSG:32748", "None"}]
    /\ bpc = "start"
    /\ tangsel_gdf = NoResult
    /\ oku_gdf = NoResult
    /\ summary = << >>

BndIdle ==
    /\ layer_gdf = [columns |-> << GeometryColumn >>, rows |-> << >>, crs |-> "EPSG:4326"]
    /\ bpc = "off"
    /\ tangsel_gdf = NoResult
    /\ oku_gdf = NoResult
    /\ summary = << >>

\* main, lines 185-192; an exception that extract_boundaries raises is
\* caught nowhere and ends the script.
ExtractTangsel ==
    /\ bpc = "start"
    /\ tangsel_gdf' = extract_boundaries(layer_gdf, TANGSEL_KEYWORDS, << >>)
    /\ bpc' = IF tangsel_gdf'.raised # "" THEN "crashed" ELSE "tangsel_done"
    /\ UNCHANGED <<layer_gdf, oku_gdf, summary>>
    /\ UNCHANGED notBnd

\* main, lines 194-201.
ExtractOku ==
    /\ bpc = "tangsel_done"
    /\ oku_gdf' = extract_boundaries(layer_gdf, OKU_KEYWORDS, << "W", "A", "D", "M", "K", "C" >>)
    /\ bpc' = IF oku_gdf'.raised # "" THEN "crashed" ELSE "oku_done"
    /\ UNCHANGED <<layer_gdf, tangsel_gdf, summary>>
    /\ UNCHANGED notBnd

\* main, lines 203-219.
PrintSummary ==
    /\ bpc = "oku_done"
    /\ summary' = << IF tangsel_gdf.ret # "None" THEN "ok" ELSE "Failed",
                     IF oku_gdf.ret # "None" THEN "ok" ELSE "Failed" >>
    /\ bpc' = "finished"
    /\ UNCHANGED <<layer_gdf, tangsel_gdf, oku_gdf>>
    /\ UNCHANGED notBnd

NextBnd ==
    \/ ExtractTangsel
    \/ ExtractOku
    \/ PrintSummary

(***************************************************************************)
(* OSM extraction: the road steps of extract_osm_data.py.                  *)
(***************************************************************************)
OsmRegions == {"tangsel", "oku"}

\* A road segment of the bounding box lies inside the region's boundary or
\* outside it.
RoadLists == UNION { [1..n -> [inside : BOOLEAN]] : n \in 0..MaxRoads }

\* get_network returns None or a table of segments.
Networks == [none : {TRUE}, rows : {<< >>}] \cup [none : {FALSE}, rows : RoadLists]

NotExtracted == [done |-> FALSE, warned |-> FALSE, columns |-> {}, rows |-> << >>]

IsInside(road) == road.inside

\* extract_roads(osm_obj, region_gdf, region_name), lines 273-301.
extract_roads(raw) ==
    IF raw.none \/ Len(raw.rows) = 0
    THEN [done |-> TRUE, warned |-> TRUE, columns |-> {}, rows |-> << >>]
    ELSE [done |-> TRUE, warned |-> FALSE,
          columns |-> {"name", "highway", "geometry", "length_m"},
          rows |-> SelectSeq(raw.rows, IsInside)]

BusinessAndBuildingFiles ==
    {"osm_business_tangsel.geojson", "osm_business_tangsel.csv",
     "osm_business_oku.geojson", "osm_business_oku.csv",
     "osm_buildings_tangsel.geojson", "osm_buildings_oku.geojson"}

RoadsFile(region) ==
    IF region = "tangsel" THEN "osm_roads_tangsel.geojson" ELSE "osm_roads_oku.geojson"

\* save_data, lines 308-346.  road_cols is bound only inside the first
\* `if`; the second `if` reads it.
save_data(roads_tangsel, roads_oku) ==
    LET tangsel == Len(roads_tangsel.rows) > 0
        oku == Len(roads_oku.rows) > 0
        first == BusinessAndBuildingFiles
                   \cup (IF tangsel THEN {RoadsFile("tangsel")} ELSE {})
    IN IF oku /\ ~tangsel
       THEN [written |-> first, fault |-> "UnboundLocalError"]
       ELSE [written |-> first \cup (IF oku THEN {RoadsFile("oku")} ELSE {}),
             fault |-> ""]

\* print_summary, lines 399-428: the rows of the table it prints.
print_summary(roads_tangsel, roads_oku) ==
    {"Total POIs", "Business POIs", "Buildings", "Building Area (km2)"}
      \cup (IF Len(roads_tangsel.rows) > 0 /\ Len(roads_oku.rows) > 0
            THEN {"Road Segments", "Road Length (km)"} ELSE {})

\* load_boundaries(), lines 127-149: the exception it raises, "" if none.
load_boundaries(boundaries) ==
    IF ~boundaries["tangsel"] THEN "FileNotFoundError"
    ELSE IF ~boundaries["oku"] THEN "FileNotFoundError"
    ELSE ""

\* extract_regional_pbf without the "already exists" test of lines 164-166.
extract_regional_pbf_overwrite(env, region, returncode) ==
    IF ~env.pbf.exists
    THEN [env |-> env, ret |-> FALSE, osmium |-> FALSE]
    ELSE IF returncode = 0
    THEN [env |-> [env EXCEPT !.regional[region] = TRUE], ret |-> TRUE, osmium |-> TRUE]
    ELSE [env |-> env, ret |-> FALSE, osmium |-> TRUE]

\* extract_regional_pbf(region_name, bbox_string, output_pbf), lines
\* 162-183, osmium ending with `returncode`: the files afterwards, the value
\* returned and whether osmium was run.
extract_regional_pbf(env, region, returncode) ==
    IF env.regional[region]
    THEN [env |-> env, ret |-> TRUE, osmium |-> FALSE]
    ELSE IF ~env.pbf.exists
    THEN [env |-> env, ret |-> FALSE, osmium |-> FALSE]
    ELSE IF returncode = 0
    THEN [env |-> [env EXCEPT !.regional[region] = TRUE], ret |-> TRUE, osmium |-> TRUE]
    ELSE [env |-> env, ret |-> FALSE, osmium |-> TRUE]

\* One entry of `calls`: the function, its region, what it returned
\* ("raised" for an exception), and for extract_regional_pbf what it found
\* on disk and whether it ran osmium.
Call(fn, region, result) ==
    [fn |-> fn, region |-> region, ret |-> result,
     output_existed |-> FALSE, pbf_existed |-> FALSE, osmium |-> FALSE]

OsmInit ==
    /\ roads_raw \in [OsmRegions -> Networks]
    /\ roads = [r \in OsmRegions |-> NotExtracted]
    /\ opc = "download_indonesia_pbf"
    /\ osm_outputs = {}
    /\ printed = {}
    /\ fault = ""
    /\ osm_env \in [pbf : {NoFile, OldFile},
                    boundaries : [OsmRegions -> BOOLEAN],
                    regional : [OsmRegions -> BOOLEAN]]
    /\ calls = << >>

OsmIdle ==
    /\ roads_raw = [r \in OsmRegions |-> [none |-> TRUE, rows |-> << >>]]
    /\ roads = [r \in OsmRegions |-> NotExtracted]
    /\ opc = "off"
    /\ osm_outputs = {}
    /\ printed = {}
    /\ fault = ""
    /\ osm_env = [pbf |-> NoFile,
                  boundaries |-> [r \in OsmRegions |-> FALSE],
                  regional |-> [r \in OsmRegions |-> FALSE]]
    /\ calls = << >>

\* main, lines 438-441: step 1; a False ends main.
OsmDownloadPbf ==
    /\ opc = "download_indonesia_pbf"
    /\ \E resp \in Responses :
         LET r == download_indonesia_pbf([pbf |-> osm_env.pbf], resp) IN
         /\ osm_env' = [osm_env EXCEPT !.pbf = r.disk.pbf]
         /\ calls' = Append(calls, Call("download_indonesia_pbf", "none", PyBool(r.ret)))
         /\ opc' = IF r.ret THEN "load_boundaries" ELSE "returned"
    /\ UNCHANGED <<roads_raw, roads, osm_outputs, printed, fault>>
    /\ UNCHANGED notOsm

\* main, lines 443-450: step 2; load_boundaries is called outside any try.
OsmLoadBoundaries ==
    /\ opc = "load_boundaries"
    /\ LET raised == load_boundaries(osm_env.boundaries) IN
       /\ fault' = raised
       /\ calls' = Append(calls, Call("load_boundaries", "none",
                                      IF raised # "" THEN "raised" ELSE "ok"))
       /\ opc' = IF raised # "" THEN "crashed" ELSE "extract_regional_pbf_tangsel"
    /\ UNCHANGED <<roads_raw, roads, osm_outputs, printed, osm_env>>
    /\ UNCHANGED notOsm

\* The Indonesia PBF is deleted by someone else while main runs: the case
\* the test of line 168 is there for.
IndonesiaPbfRemoved ==
    /\ opc \in {"extract_regional_pbf_tangsel", "extract_regional_pbf_oku"}
    /\ osm_env.pbf.exists
    /\ osm_env' = [osm_env EXCEPT !.pbf = NoFile]
    /\ UNCHANGED <<roads_raw, roads, opc, osm_outputs, printed, fault, calls>>
    /\ UNCHANGED notOsm

RegionalCall(region, r) ==
    [fn |-> "extract_regional_pbf", region |-> region, ret |-> PyBool(r.ret),
     output_existed |-> osm_env.regional[region],
     pbf_existed |-> osm_env.pbf.exists, osmium |-> r.osmium]

\* main, lines 456-457: step 3 for Tangsel; a False ends main.
OsmExtractRegionalTangsel ==
    /\ opc = "extract_regional_pbf_tangsel"
    /\ \E returncode \in {0, 1} :
         LET r == extract_regional_pbf(osm_env, "tangsel", returncode) IN
         /\ osm_env' = r.env
         /\ calls' = Append(calls, RegionalCall("tangsel", r))
         /\ opc' = IF r.ret THEN "extract_regional_pbf_oku" ELSE "returned"
    /\ UNCHANGED <<roads_raw, roads, osm_outputs, printed, fault>>
    /\ UNCHANGED notOsm

\* main, lines 458-459: step 3 for OKU; a False ends main.
OsmExtractRegionalOku ==
    /\ opc = "extract_regional_pbf_oku"
    /\ \E returncode \in {0, 1} :
         LET r == extract_regional_pbf(osm_env, "oku", returncode) IN
         /\ osm_env' = r.env
         /\ calls' = Append(calls, RegionalCall("oku", r))
         /\ opc' = IF r.ret THEN "read_layers" ELSE "returned"
    /\ UNCHANGED <<roads_raw, roads, osm_outputs, printed, fault>>
    /\ UNCHANGED notOsm

\* main, lines 463-474: the regional PBFs are opened and the POIs,
\* businesses and buildings are read.
OsmReadLayers ==
    /\ opc = "read_layers"
    /\ calls' = Append(calls, Call("read_layers", "none", "ok"))
    /\ opc' = "extract_roads_tangsel"
    /\ UNCHANGED <<roads_raw, roads, osm_outputs, printed, fault, osm_env>>
    /\ UNCHANGED notOsm

\* main, line 476.
ExtractRoadsTangsel ==
    /\ opc = "extract_roads_tangsel"
    /\ roads' = [roads EXCEPT !["tangsel"] = extract_roads(roads_raw["tangsel"])]
    /\ opc' = "extract_roads_oku"
    /\ UNCHANGED <<roads_raw, osm_outputs, printed, fault, osm_env, calls>>
    /\ UNCHANGED notOsm

\* main, line 477.
ExtractRoadsOku ==
    /\ opc = "extract_roads_oku"
    /\ roads' = [roads EXCEPT !["oku"] = extract_roads(roads_raw["oku"])]
    /\ opc' = "save_data"
    /\ UNCHANGED <<roads_raw, osm_outputs, printed, fault, osm_env, calls>>
    /\ UNCHANGED notOsm

\* main, line 480; an exception in save_data ends main.
SaveData ==
    /\ opc = "save_data"
    /\ LET saved == save_data(roads["tangsel"], roads["oku"])
       IN /\ osm_outputs' = osm_outputs \cup saved.written
          /\ fault' = saved.fault
          /\ opc' = IF saved.fault # "" THEN "crashed" ELSE "create_visualization"
    /\ UNCHANGED <<roads_raw, roads, printed, osm_env, calls>>
    /\ UNCHANGED notOsm

\* main, line 481.
CreateVisualization ==
    /\ opc = "create_visualization"
    /\ osm_outputs' = osm_outputs \cup {"osm_business_comparison.png"}
    /\ opc' = "print_summary"
    /\ UNCHANGED <<roads_raw, roads, printed, fault, osm_env, calls>>
    /\ UNCHANGED notOsm

\* main, lines 482-483.
PrintOsmSummary ==
    /\ opc = "print_summary"
    /\ printed' = print_summary(roads["tangsel"], roads["oku"])
    /\ opc' = "finished"
    /\ UNCHANGED <<roads_raw, roads, osm_outputs, fault, osm_env, calls>>
    /\ UNCHANGED notOsm

NextOsm ==
    \/ OsmDownloadPbf
    \/ OsmLoadBoundaries
    \/ IndonesiaPbfRemoved
    \/ OsmExtractRegionalTangsel
    \/ OsmExtractRegionalOku
    \/ OsmReadLayers
    \/ ExtractRoadsTangsel
    \/ ExtractRoadsOku
    \/ SaveData
    \/ CreateVisualization
    \/ PrintOsmSummary

(***************************************************************************)
(* download_gdb.py: the nested-folder fix of check_gdb_data.  An item of a *)
(* folder is a file, a directory or a symbolic link whose target is        *)
(* missing; "from" tells the two folders' items apart.                     *)
(***************************************************************************)
GdbNames == {"batas_desa.gdb", "tangsel_boundary.geojson"}

IsGdb(n) == n = "batas_desa.gdb"

NoItem == [kind |-> "none", from |-> "none"]

ScriptItems ==
    { NoItem } \cup { [kind |-> k, from |-> "script"] :
                        k \in {"file", "dir", "broken_link"} }

NestedItems ==
    { NoItem } \cup { [kind |-> k, from |-> "nested"] : k \in {"file", "dir"} }

NoNestedDir == [kind |-> "none", items |-> [n \in GdbNames |-> NoItem]]

\* pathlib.Path.exists() follows symbolic links: it is False for a link
\* whose target is missing.
PathExists(item) == item.kind \in {"file", "dir"}

\* The orders in which iterdir() can yield the names of S.
IterOrders(S) ==
    { f \in [1..Cardinality(S) -> S] :
        \A a, b \in 1..Cardinality(S) : f[a] = f[b] => a = b }

\* shutil.move(item, target) where target does not "exist": os.rename puts
\* the item under the target name, replacing a dangling link of that name
\* when the item is a file; a directory cannot replace the link (ENOTDIR)
\* and the copytree fallback raises FileExistsError.
MoveRaises(item, target) ==
    item.kind = "dir" /\ target.kind = "broken_link"

\* Lines 30-34, from the k-th name of the listing on.
RECURSIVE MoveItems(_, _, _)
MoveItems(st, order, k) ==
    IF k > Len(order) \/ st.raised
    THEN st
    ELSE LET n == order[k]
             item == st.nested[n]
             target == st.script[n]
         IN IF PathExists(target)
            THEN MoveItems(st, order, k + 1)
            ELSE IF MoveRaises(item, target)
            THEN [st EXCEPT !.raised = TRUE]
            ELSE MoveItems([st EXCEPT !.script[n] = item,
                                      !.nested[n] = NoItem,
                                      !.moved_count = @ + 1],
                           order, k + 1)

\* check_gdb_data(), lines 22-45, the listing of boundaries/ coming in the
\* given order: the two folders afterwards, whether an exception left the
\* function, and the two glob results.
check_gdb_data(script, nested, order) ==
    LET st == IF nested.kind = "dir"
              THEN MoveItems([script |-> script, nested |-> nested.items,
                              moved_count |-> 0, raised |-> FALSE], order, 1)
              ELSE [script |-> script, nested |-> nested.items,
                    moved_count |-> 0, raised |-> FALSE]
        \* nested_dir.rmdir() succeeds on an empty directory only
        removed == /\ nested.kind = "dir"
                   /\ ~st.raised
                   /\ st.moved_count > 0
                   /\ \A n \in GdbNames : st.nested[n] = NoItem
    IN [script |-> st.script,
        nested |-> IF removed THEN NoNestedDir
                   ELSE [kind |-> nested.kind, items |-> st.nested],
        moved_count |-> st.moved_count,
        raised |-> st.raised,
        gdb_folders |-> { n \in GdbNames : IsGdb(n) /\ st.script[n] # NoItem },
        geojson_files |-> { n \in GdbNames : ~IsGdb(n) /\ st.script[n] # NoItem }]

NoGdbRun == [called |-> FALSE, raised |-> FALSE, moved_count |-> 0, ret |-> "None"]

GdbInit ==
    /\ script_dir \in [GdbNames -> ScriptItems]
    /\ nested_dir \in
         { NoNestedDir, [kind |-> "file", items |-> [n \in GdbNames |-> NoItem]] }
         \cup { [kind |-> "dir", items |-> it] : it \in [GdbNames -> NestedItems] }
    /\ gdb_pre = [script |-> script_dir, nested |-> nested_dir]
    /\ gdb_ret = NoGdbRun

GdbIdle ==
    /\ script_dir = [n \in GdbNames |-> NoItem]
    /\ nested_dir = NoNestedDir
    /\ gdb_pre = [script |-> script_dir, nested |-> nested_dir]
    /\ gdb_ret = NoGdbRun

\* download_gdb.main(): check_gdb_data, then True if any boundary file was
\* found.
GdbMain ==
    /\ \E order \in IterOrders({ n \in GdbNames : nested_dir.items[n] # NoItem }) :
         LET r == check_gdb_data(script_dir, nested_dir, order) IN
         /\ script_dir' = r.script
         /\ nested_dir' = r.nested
         /\ gdb_ret' = [called |-> TRUE,
                        raised |-> r.raised,
                        moved_count |-> r.moved_count,
                        ret |-> IF r.raised THEN "None"
                                ELSE PyBool(r.geojson_files # {} \/ r.gdb_folders # {})]
    /\ gdb_pre' = [script |-> script_dir, nested |-> nested_dir]
    /\ UNCHANGED notGdb

NextGdb == GdbMain

(***************************************************************************)
(* extract_osm_data.extract_business_data.  A POI table has the column     *)
(* 'name' and some of the tag columns; a cell is a tag value or NA.        *)
(***************************************************************************)
NA == "<NA>"

TagColumns == <<"shop", "amenity", "office">>

\* The tag columns a POI table can come with: all of them, or amenity only.
PoiColumnSets == { {"name", "shop", "amenity", "office"}, {"name", "amenity"} }

TagValue(c) ==
    CASE c = "name" -> "Toko Makmur"
      [] c = "shop" -> "supermarket"
      [] c = "amenity" -> "bank"
      [] c = "office" -> "company"

\* The rows a table with the columns cols can hold: a cell of a column the
\* table has is a value or NA; the other fields are unused.
PoiRows(cols) ==
    { r \in [name : {NA, TagValue("name")},
             shop : {NA, TagValue("shop")},
             amenity : {NA, TagValue("amenity")},
             office : {NA, TagValue("office")}] :
        \A k \in 1..Len(TagColumns) :
            TagColumns[k] \notin cols => r[TagColumns[k]] = NA }

PoiTables ==
    { [columns |-> cols, rows |-> rows] :
        cols \in PoiColumnSets, rows \in {<<>>} } \cup
    UNION { UNION { { [columns |-> cols, rows |-> rows] :
                        rows \in [1..n -> PoiRows(cols)] } :
                    n \in 1..MaxPois } :
            cols \in PoiColumnSets }

\* pd.notna(v).
notna(v) == v # NA

\* row.get(c): the cell, or None when the table has no such column.
RowGet(row, columns, c) == IF c \in columns THEN row[c] ELSE NA

\* get_category with amenity tested before shop.
get_category_amenity_first(row, columns) ==
    IF notna(RowGet(row, columns, "amenity")) THEN <<"amenity:", row.amenity>>
    ELSE IF notna(RowGet(row, columns, "shop")) THEN <<"shop:", row.shop>>
    ELSE IF notna(RowGet(row, columns, "office")) THEN <<"office:", row.office>>
    ELSE <<"other">>

\* get_category(row), lines 224-231; f"shop:{v}" is the pair of its parts.
get_category(row, columns) ==
    IF notna(RowGet(row, columns, "shop")) THEN <<"shop:", row.shop>>
    ELSE IF notna(RowGet(row, columns, "amenity")) THEN <<"amenity:", row.amenity>>
    ELSE IF notna(RowGet(row, columns, "office")) THEN <<"office:", row.office>>
    ELSE <<"other">>

\* The positions of the rows gdf[gdf['name'].notna()] keeps, in order.
RECURSIVE NamedIndexes(_, _)
NamedIndexes(rows, k) ==
    IF k > Len(rows) THEN <<>>
    ELSE IF notna(rows[k].name) THEN <<k>> \o NamedIndexes(rows, k + 1)
    ELSE NamedIndexes(rows, k + 1)

\* extract_business_data(gdf, region_name): the named rows under their
\* index labels, with the category and the centroid coordinates added.
extract_business_data(table) ==
    LET keep == NamedIndexes(table.rows, 1) IN
    [columns |-> table.columns \cup {"category", "lon", "lat"},
     rows |-> [j \in 1..Len(keep) |->
                 LET row == table.rows[keep[j]] IN
                 [index |-> keep[j],
                  name |-> row.name,
                  shop |-> row.shop,
                  amenity |-> row.amenity,
                  office |-> row.office,
                  category |-> get_category(row, table.columns),
                  lon |-> <<"centroid.x", keep[j]>>,
                  lat |-> <<"centroid.y", keep[j]>>]]]

NoBiz == [columns |-> {}, rows |-> <<>>]

BizInit ==
    /\ pois \in PoiTables
    /\ biz = NoBiz
    /\ bizpc = "loaded"

BizIdle ==
    /\ pois = [columns |-> {"name"}, rows |-> <<>>]
    /\ biz = NoBiz
    /\ bizpc = "off"

\* extract_osm_data.main, lines 469-470: one of the two calls.
ExtractBusinessData ==
    /\ bizpc = "loaded"
    /\ biz' = extract_business_data(pois)
    /\ bizpc' = "done"
    /\ UNCHANGED pois
    /\ UNCHANGED notBiz

NextBiz == ExtractBusinessData

(***************************************************************************)
(* Specifications: one per family of scripts.                              *)
(***************************************************************************)
InitDownload == DlInit /\ GridIdle /\ RasterIdle /\ BndIdle /\ OsmIdle /\ GdbIdle /\ BizIdle

SpecDownload == InitDownload /\ [][NextDownload]_vars

InitGrid == GridInit /\ DlIdle /\ RasterIdle /\ BndIdle /\ OsmIdle /\ GdbIdle /\ BizIdle

SpecGrid == InitGrid /\ [][NextGrid]_vars

InitRaster == RasterInit /\ DlIdle /\ GridIdle /\ BndIdle /\ OsmIdle /\ GdbIdle /\ BizIdle

SpecRaster == InitRaster /\ [][NextRaster]_vars

InitBnd == BndInit /\ DlIdle /\ GridIdle /\ RasterIdle /\ OsmIdle /\ GdbIdle /\ BizIdle

SpecBnd == InitBnd /\ [][NextBnd]_vars

InitOsm == OsmInit /\ DlIdle /\ GridIdle /\ RasterIdle /\ BndIdle /\ GdbIdle /\ BizIdle

SpecOsm == InitOsm /\ [][NextOsm]_vars

InitGdb ==
    GdbInit /\ DlIdle /\ GridIdle /\ RasterIdle /\ BndIdle /\ OsmIdle /\ BizIdle

SpecGdb == InitGdb /\ [][NextGdb]_vars

InitBiz ==
    BizInit /\ DlIdle /\ GridIdle /\ RasterIdle /\ BndIdle /\ OsmIdle /\ GdbIdle

SpecBiz == InitBiz /\ [][NextBiz]_vars

(***************************************************************************)
(* Properties of the remote asset fetchers.                                *)
(***************************************************************************)
\* A truncated download: a proper prefix of the body the server sends.
IsPartial(f) ==
    /\ f.exists
    /\ Len(f.data) < BodyLen
    /\ f.data = SubSeq(Body, 1, Len(f.data))

\* The layers whose turn in the loop of main has passed.
Processed == { HAZARD_LAYERS[k] : k \in 1..(i - 1) }

\* C1: re-running a download when the target already exists does not
\* re-fetch or corrupt it.  A <layer>.tif that exists when download_layer or
\* risk_bnpb_scrap.main starts holds the same content afterwards and no HTTP
\* request is issued for it; download_layer returns True and main counts the
\* layer as skipped.  If inarisk/ holds at least one *.tif when
\* download_bnpb_data starts, it issues no request, changes nothing on disk
\* and returns True.  Hence a run that starts with every target present (a
\* second run after a complete one) leaves the disk exactly as it found it.
C1_RerunKeepsExisting ==
    /\ \A l \in Layers :
         pre.tif[l].exists => disk.tif[l] = pre.tif[l] /\ reqs[l] = 0
    /\ op.name = "download_layer" /\ pre.tif[op.arg].exists
         => ret = "True" /\ disk = pre
    /\ op.name = "scrap_main"
         => skipped = Cardinality({ l \in Processed : pre.tif[l].exists })
    /\ op.name = "download_bnpb_data" /\ (\E l \in Layers : pre.tif[l].exists)
         => ret = "True" /\ reqs["gdrive"] = 0 /\ disk = pre
    /\ op.name \in {"scrap_main", "download_bnpb_data"}
         /\ (\A l \in Layers : pre.tif[l].exists)
         => disk = pre

\* C1 witness: a second run of main has finished and skipped a file that an
\* earlier invocation downloaded in full.
C1_Witness ==
    /\ op.name = "scrap_main"
    /\ pc = "idle"
    /\ runs >= 2
    /\ \E l \in Layers : pre.tif[l] = Written(BodyLen) /\ disk.tif[l] = pre.tif[l]
    /\ skipped >= 1

\* C2: partial downloads are cleaned up on failure: no partially written
\* target file (a <layer>.tif, the zip, the Indonesia PBF) remains on disk
\* once a fetch has failed.
C2_NoPartialFileRemains ==
    /\ \A l \in Layers : ~IsPartial(disk.tif[l])
    /\ ~IsPartial(disk.zip)
    /\ ~IsPartial(disk.pbf)

\* The layers main has processed in this run that were absent when it
\* started: each of them was handed to download_layer.
Attempted == { l \in Processed : ~pre.tif[l].exists }

\* C11: within one run of risk_bnpb_scrap.main each layer is requested at
\* most once (no retry); every layer whose turn has come and that was not
\* on disk was requested exactly once, whatever happened to the layers
\* before it; a layer whose request did not deliver the whole image is
\* counted as failed, one that did as success; main ends only after the
\* last layer.
C11_EachLayerOnceNoRetry ==
    op.name = "scrap_main" =>
      /\ \A l \in Layers : reqs[l] <= 1
      /\ \A l \in Attempted : reqs[l] = 1
      /\ \A l \in Layers \ Attempted : reqs[l] = 0
      /\ failed = Cardinality({ l \in Attempted : disk.tif[l] # Written(BodyLen) })
      /\ success = Cardinality({ l \in Attempted : disk.tif[l] = Written(BodyLen) })
      /\ pc = "idle" => i = Len(HAZARD_LAYERS) + 1

\* C11 witness: a run has ended in which an early layer failed and a later
\* layer was still requested and downloaded.
C11_Witness ==
    /\ op.name = "scrap_main"
    /\ pc = "idle"
    /\ \E j, k \in 1..Len(HAZARD_LAYERS) :
         /\ j < k
         /\ reqs[HAZARD_LAYERS[j]] = 1
         /\ ~disk.tif[HAZARD_LAYERS[j]].exists
         /\ reqs[HAZARD_LAYERS[k]] = 1
         /\ disk.tif[HAZARD_LAYERS[k]] = Written(BodyLen)
    /\ failed >= 1
    /\ success >= 1

\* C15: when download_bnpb_data returns True, every name of EXPECTED_FILES
\* exists directly under inarisk/ and nothing is left in a nested
\* inarisk/inarisk/ folder.
C15_TrueMeansAllExpectedFiles ==
    (op.name = "download_bnpb_data" /\ ret = "True")
      => /\ \A k \in 1..Len(EXPECTED_FILES) : disk.tif[EXPECTED_FILES[k]].exists
         /\ ~disk.nested.exists

\* C20: a call of download_layer that meets an HTTP error status, or a
\* Content-Type with none of 'image', 'tiff', 'octet', creates no file at
\* the target path and returns False; whenever download_layer returns True
\* the target file exists.
C20_FileOnlyForImageResponse ==
    op.name = "download_layer" =>
      /\ (reqs[op.arg] = 1 /\ op.resp \in {"http_error", "not_image"})
           => (~disk.tif[op.arg].exists /\ ret = "False")
      /\ ret = "True" => disk.tif[op.arg].exists

\* C20 witness: a 200 response of type text/html was answered with False
\* and no file.
C20_Witness ==
    /\ op.name = "download_layer"
    /\ reqs[op.arg] = 1
    /\ op.resp = "not_image"
    /\ ret = "False"
    /\ ~disk.tif[op.arg].exists

\* C21: at every point of the loop of risk_bnpb_scrap.main the three
\* counters add up to the number of layers whose turn has passed, so at the
\* end success + failed + skipped is the number of layers in HAZARD_LAYERS:
\* each layer is classified once, in list order.  The layers counted as
\* skipped are those whose file existed before their turn, and every layer
\* counted as skipped or success has its .tif in the output folder.
C21_EveryLayerClassifiedOnce ==
    op.name = "scrap_main" =>
      /\ success >= 0 /\ failed >= 0 /\ skipped >= 0
      /\ success + failed + skipped = i - 1
      /\ pc = "idle" => success + failed + skipped = Len(HAZARD_LAYERS)
      /\ skipped + success = Cardinality({ l \in Processed : disk.tif[l].exists })
                               - Cardinality({ l \in Attempted : IsPartial(disk.tif[l]) })
      /\ \A l \in Processed : pre.tif[l].exists => disk.tif[l].exists

\* C21 witness: main has ended having skipped one layer and downloaded
\* another, both of which are on disk.
C21_Witness ==
    /\ op.name = "scrap_main"
    /\ pc = "idle"
    /\ skipped >= 1
    /\ success >= 1
    /\ success + failed + skipped = Len(HAZARD_LAYERS)
    /\ \A l \in Layers : disk.tif[l].exists

\* C22: once download_bnpb_data has returned from a download attempt (it
\* issued the request, so it did not take the "data already exists" return),
\* bnpb_risk_data.zip does not exist, whether the attempt succeeded or the
\* download or the extraction failed.
C22_ZipGoneAfterAttempt ==
    (op.name = "download_bnpb_data" /\ reqs["gdrive"] = 1) => ~disk.zip.exists

\* C22 witness: an attempt whose archive was downloaded in full and whose
\* extraction failed has returned False, and the zip is gone.
C22_Witness ==
    /\ op.name = "download_bnpb_data"
    /\ reqs["gdrive"] = 1
    /\ ret = "False"
    /\ \E l \in Layers : IsPartial(disk.tif[l])
    /\ ~disk.zip.exists

(***************************************************************************)
(* Properties of the grid export.                                          *)
(***************************************************************************)
\* Reading a written value back: the empty CSV field and the JSON null are
\* the missing value.
CsvRead(f) == IF f.t = "empty" THEN NaN ELSE Num(f.v)

JsonRead(j) == IF j.t = "null" THEN NaN ELSE Num(j.v)

\* The non-geometry attributes of a loaded row.
Attributes(row) ==
    [lon |-> Num(row.lon), lat |-> Num(row.lat), lulc_class |-> row.lulc_class]

CsvAttributes(rec) ==
    [lon |-> CsvRead(rec.lon), lat |-> CsvRead(rec.lat),
     lulc_class |-> CsvRead(rec.lulc_class)]

JsonAttributes(feature) ==
    [lon |-> JsonRead(feature.properties.lon),
     lat |-> JsonRead(feature.properties.lat),
     lulc_class |-> JsonRead(feature.properties.lulc_class)]

\* C3: the exported CSV, GeoJSON and GeoParquet of a region hold the rows
\* of the loaded table, in the same order, with the same non-geometry
\* attribute values; attaching the geometry adds, drops or reorders no row.
C3_ExportsAgreeRowForRow ==
    \A r \in Regions :
      /\ gpc \in {"geometries", "csv", "geojson", "done"}
           => /\ Len(gdf[r]) = Len(tables[r])
              /\ \A k \in 1..Len(tables[r]) :
                   Attributes(gdf[r][k]) = Attributes(tables[r][k])
      /\ gpc \in {"csv", "geojson", "done"}
           => /\ Len(outputs.csv[r]) = Len(tables[r])
              /\ \A k \in 1..Len(tables[r]) :
                   CsvAttributes(outputs.csv[r][k]) = Attributes(tables[r][k])
      /\ gpc \in {"geojson", "done"}
           => /\ Len(outputs.geojson[r]) = Len(tables[r])
              /\ \A k \in 1..Len(tables[r]) :
                   JsonAttributes(outputs.geojson[r][k]) = Attributes(tables[r][k])
      /\ gpc = "done"
           => /\ Len(outputs.parquet[r]) = Len(tables[r])
              /\ \A k \in 1..Len(tables[r]) :
                   Attributes(outputs.parquet[r][k]) = Attributes(tables[r][k])

\* C3 witness: all three formats are written for a table of two different
\* rows, one of them with a missing attribute.
C3_Witness ==
    /\ gpc = "done"
    /\ \E r \in Regions :
         /\ Len(tables[r]) >= 2
         /\ tables[r][1] # tables[r][2]
         /\ tables[r][1].lulc_class = NaN
         /\ Len(outputs.geojson[r]) = Len(outputs.csv[r])

\* The corners of a ring, and its bounds.
Xs(ring) == { ring[k][1] : k \in 1..Len(ring) }

Ys(ring) == { ring[k][2] : k \in 1..Len(ring) }

Least(S) == CHOOSE a \in S : \A b \in S : ~RatLess(b, a)

Greatest(S) == CHOOSE a \in S : \A b \in S : ~RatLess(a, b)

\* A closed ring of four sides, each parallel to an axis.
IsClosedRectangle(ring) ==
    /\ Len(ring) = 5
    /\ ring[1] = ring[5]
    /\ Cardinality({ ring[k] : k \in 1..4 }) = 4
    /\ \A k \in 1..4 :
         (ring[k][1] = ring[k + 1][1]) # (ring[k][2] = ring[k + 1][2])

\* A valid square centred at (lon, lat).
IsSquareCentredAt(ring, lon, lat) ==
    LET minx == Least(Xs(ring))
        maxx == Greatest(Xs(ring))
        miny == Least(Ys(ring))
        maxy == Greatest(Ys(ring))
    IN /\ IsClosedRectangle(ring)
       /\ RatLess(minx, maxx)
       /\ RatLess(miny, maxy)
       /\ RatEq(RatSub(maxx, minx), RatSub(maxy, miny))
       /\ RatEq(RatAdd(minx, maxx), RatAdd(lon, lon))
       /\ RatEq(RatAdd(miny, maxy), RatAdd(lat, lat))

C5_HalfSizeFromGridSize ==
    gpc # "loaded" =>
      \A r \in Regions : \A k \in 1..Len(geoms[r]) :
        LET ring == geoms[r][k]
            row == tables[r][k]
            IsHalfCell(h) == h.num * 2 * 111000 = GRID_SIZE * h.den
        IN /\ IsHalfCell(RatSub(Greatest(Xs(ring)), row.lon))
           /\ IsHalfCell(RatSub(row.lon, Least(Xs(ring))))
           /\ IsHalfCell(RatSub(Greatest(Ys(ring)), row.lat))
           /\ IsHalfCell(RatSub(row.lat, Least(Ys(ring))))

\* C5 witness: a square has been made whose east side lies half_size_deg
\* east of its centroid.
C5_Witness ==
    /\ gpc # "loaded"
    /\ \E r \in Regions : \E k \in 1..Len(geoms[r]) :
         RatSub(Greatest(Xs(geoms[r][k])), tables[r][k].lon) = half_size_deg

C7_LulcPixelsUnchanged ==
    rop = "assign_lulc_metadata" => raster.pixels = prev.pixels

\* C8: assign_nightlights_metadata and assign_hazard_metadata change only
\* the tags and the description of band 1: pixels, CRS, transform (and data
\* type, nodata, colormap) of the file are as before the call.
C8_OnlyTagsAndDescriptionChange ==
    rop \in {"assign_nightlights_metadata", "assign_hazard_metadata"} =>
      /\ raster.pixels = prev.pixels
      /\ raster.crs = prev.crs
      /\ raster.transform = prev.transform
      /\ [raster EXCEPT !.tags = prev.tags, !.desc = prev.desc] = prev

\* C8 witness: a known hazard layer has received its tags and description
\* on a raster with a non-zero pixel.
C8_Witness ==
    /\ rop = "assign_hazard_metadata"
    /\ raster.desc # prev.desc
    /\ <<"source", "BNPB InaRISK Portal">> \in raster.tags
    /\ \E k \in 1..Len(raster.pixels) : raster.pixels[k] > 0

\* The layer name assign_hazard_metadata derives from the file it is given.
LayerOf(file) == (CHOOSE h \in HazardFiles : h.name = file.name).layer

\* C25: assign_hazard_metadata leaves a file with an unknown layer name
\* untouched: when the basename without '.tif' is no key of HAZARD_METADATA
\* it prints the warning and returns without opening the raster, so tags,
\* band description, pixels and everything else of the file are as before.
C25_UnknownLayerUntouched ==
    (rop = "assign_hazard_metadata" /\ LayerOf(rfile) \notin HAZARD_METADATA)
      => /\ raster = prev
         /\ hazard_out.warned
         /\ ~hazard_out.opened

\* C25 witness: hazard_composite.tif, with a valid pixel, went through the
\* function and still carries only the tags it came with.
C25_Witness ==
    /\ rop = "assign_hazard_metadata"
    /\ rfile.name = "hazard_composite.tif"
    /\ hazard_out.warned
    /\ raster.tags = GeeTags
    /\ raster.desc = "None"
    /\ \E k \in 1..Len(raster.pixels) : raster.pixels[k] > 0

\* The band holds only values of the documented range [0, 1].
BoundedToUnitRange(pixels) ==
    \A k \in 1..Len(pixels) : pixels[k] >= 0 /\ pixels[k] <= 1000

\* C26: the risk classes partition the valid pixels: on a raster whose
\* values are bounded to [0, 1], low + moderate + high as printed equals the
\* number of valid pixels (those > 0), and each valid pixel lies in exactly
\* one of [0, 0.3), [0.3, 0.6), [0.6, 1.0].
C26_RiskClassesPartition ==
    (rop = "assign_hazard_metadata" /\ hazard_out.opened
       /\ BoundedToUnitRange(prev.pixels))
      => /\ hazard_out.low + hazard_out.moderate + hazard_out.high
              = Cardinality({ k \in 1..Len(prev.pixels) : prev.pixels[k] > 0 })
         /\ hazard_out.low
              = Cardinality({ k \in 1..Len(prev.pixels) :
                                prev.pixels[k] > 0 /\ prev.pixels[k] < 300 })
         /\ hazard_out.moderate
              = Cardinality({ k \in 1..Len(prev.pixels) :
                                prev.pixels[k] >= 300 /\ prev.pixels[k] < 600 })
         /\ hazard_out.high
              = Cardinality({ k \in 1..Len(prev.pixels) : prev.pixels[k] >= 600 })
         /\ ~hazard_out.no_valid => hazard_out.total
              = hazard_out.low + hazard_out.moderate + hazard_out.high

\* C26 witness: a known layer whose band holds the value 1.0 and a class
\* boundary (0.3 or 0.6) has been classified, each pixel once.
C26_Witness ==
    /\ rop = "assign_hazard_metadata"
    /\ hazard_out.opened
    /\ \E j, k \in 1..Len(prev.pixels) :
         prev.pixels[j] = 1000 /\ prev.pixels[k] \in {300, 600}
    /\ hazard_out.high >= 1
    /\ hazard_out.low + hazard_out.moderate + hazard_out.high = Len(prev.pixels)

(***************************************************************************)
(* Boundary extraction properties.                                         *)
(***************************************************************************)
\* No feature of the layer carries, in any of its text columns, a name
\* that the keywords match.
NoRegionNameMatches(region_keywords) ==
    \A k \in 1..Len(layer_gdf.rows) : \A c \in 1..Len(layer_gdf.columns) :
        layer_gdf.columns[c].dtype = "object"
            => ~MatchesKeywords(Cell(layer_gdf.rows[k], layer_gdf.columns[c]),
                                region_keywords)

WarnedAndNone(result) ==
    /\ result.raised = ""
    /\ result.ret = "None"
    /\ "No features found" \in result.warnings

TangselCalled == bpc \in {"tangsel_done", "oku_done", "finished", "crashed"}

OkuCalled == bpc \in {"oku_done", "finished"} \/ (bpc = "crashed" /\ tangsel_gdf.raised = "")

\* C9: whatever the columns of the layer and their types, a call of
\* extract_boundaries for which no region name matches the keywords raises
\* nothing, prints the "No features found" warning and returns None; main
\* then reports that region as Failed and finishes.
C9_NoMatchWarnsAndReturnsNone ==
    /\ (TangselCalled /\ NoRegionNameMatches(TANGSEL_KEYWORDS)) => WarnedAndNone(tangsel_gdf)
    /\ (OkuCalled /\ NoRegionNameMatches(OKU_KEYWORDS)) => WarnedAndNone(oku_gdf)
    /\ (bpc = "finished" /\ NoRegionNameMatches(TANGSEL_KEYWORDS)) => summary[1] = "Failed"
    /\ (bpc = "finished" /\ NoRegionNameMatches(OKU_KEYWORDS)) => summary[2] = "Failed"
    /\ (NoRegionNameMatches(TANGSEL_KEYWORDS) /\ NoRegionNameMatches(OKU_KEYWORDS))
         => bpc # "crashed"

\* The calls of extract_boundaries that main has made so far: the result,
\* the keywords and the dissolve_by argument of each.
WADMKK == << "W", "A", "D", "M", "K", "K" >>

WADMKC == << "W", "A", "D", "M", "K", "C" >>

CallsMade ==
    (IF TangselCalled
     THEN {[res |-> tangsel_gdf, keywords |-> TANGSEL_KEYWORDS, dissolve_by |-> << >>]}
     ELSE {})
    \cup (IF OkuCalled
          THEN {[res |-> oku_gdf, keywords |-> OKU_KEYWORDS, dissolve_by |-> WADMKC]}
          ELSE {})

HasCode(col) == Contains(Upper(col.name), << "K", "D" >>)

IsNameLike(col) ==
    /\ \/ Contains(Upper(col.name), << "W", "A", "D", "M" >>)
       \/ Contains(Upper(col.name), << "N", "A", "M", "A" >>)
       \/ Contains(Upper(col.name), << "K", "A", "B" >>)
       \/ Contains(Upper(col.name), << "K", "O", "T" >>)
    /\ ~HasCode(col)

ColumnIndexes == 1..Len(layer_gdf.columns)

HasWadmkk == \E c \in ColumnIndexes : layer_gdf.columns[c].name = WADMKK

HasNameLike == \E c \in ColumnIndexes : IsNameLike(layer_gdf.columns[c])

\* C13: the filter column is chosen by priority.  A column named WADMKK is
\* chosen whenever there is one; otherwise the first column in table order
\* whose upper-cased name holds WADM, NAMA, KAB or KOT and not KD;
\* otherwise, and only then, the first text column, with the warning.
C13_NameColumnByPriority ==
    \A call \in CallsMade :
      call.res.raised # "IndexError" =>
        LET n == call.res.name_col
            cols == layer_gdf.columns
            warned == "Could not find name column" \in call.res.warnings
        IN /\ n \in ColumnIndexes
           /\ HasWadmkk => cols[n].name = WADMKK
           /\ (~HasWadmkk /\ HasNameLike)
                => /\ IsNameLike(cols[n])
                   /\ \A c \in 1..(n - 1) : ~IsNameLike(cols[c])
           /\ (~HasWadmkk /\ ~HasNameLike)
                => /\ cols[n].dtype = "object"
                   /\ \A c \in 1..(n - 1) : cols[c].dtype # "object"
                   /\ warned
           /\ warned => (~HasWadmkk /\ ~HasNameLike)

\* C13 witness: the first column is a code column holding KAB, the second a
\* name column, and the second was chosen.
C13_Witness ==
    /\ TangselCalled
    /\ ~HasWadmkk
    /\ Len(layer_gdf.columns) >= 3
    /\ HasCode(layer_gdf.columns[1])
    /\ Contains(Upper(layer_gdf.columns[1].name), << "K", "A", "B" >>)
    /\ IsNameLike(layer_gdf.columns[2])
    /\ tangsel_gdf.name_col = 2

\* C14: the column used for filtering never holds 'KD' in its upper-cased
\* name, whatever the table.
C14_FilterColumnIsNoCodeColumn ==
    \A call \in CallsMade :
      call.res.name_col # 0 => ~HasCode(layer_gdf.columns[call.res.name_col])

\* C16: a call that wrote its GeoJSON wrote and returned features in
\* EPSG:4326; they were reprojected exactly when the source layer was in
\* another CRS.
C16_WrittenInWgs84 ==
    \A call \in CallsMade :
      /\ call.res.written <=> call.res.ret = "gdf"
      /\ call.res.written
           => /\ call.res.crs = "EPSG:4326"
              /\ call.res.reprojected <=> layer_gdf.crs # "EPSG:4326"

\* C16 witness: a layer in UTM 48S was extracted, reprojected and written.
C16_Witness ==
    /\ OkuCalled
    /\ layer_gdf.crs = "EPSG:32748"
    /\ oku_gdf.written
    /\ oku_gdf.reprojected
    /\ oku_gdf.crs = "EPSG:4326"

DissolveColumns(dissolve_by) ==
    { c \in ColumnIndexes : Contains(Upper(layer_gdf.columns[c].name), Upper(dissolve_by)) }

SameRows(a, b) == Len(a) = Len(b) /\ \A k \in 1..Len(a) : a[k] = b[k]

\* C17: a call that returned features returned, with dissolve_by unset, the
\* filtered features as they are; with dissolve_by set and a column
\* matching it, exactly one feature per distinct value of the first such
\* column among the filtered features; with dissolve_by set and no column
\* matching it, the warning and the filtered features as they are.
C17_DissolveOnePerValue ==
    \A call \in CallsMade :
      call.res.ret = "gdf" =>
        LET warned == "Could not find dissolve column" \in call.res.warnings
            matching == DissolveColumns(call.dissolve_by)
        IN IF call.dissolve_by = << >>
           THEN SameRows(call.res.rows, call.res.filtered) /\ ~warned
           ELSE IF matching = {}
           THEN SameRows(call.res.rows, call.res.filtered) /\ warned
           ELSE LET col == layer_gdf.columns[CHOOSE c \in matching : \A d \in matching : c <= d]
                    values(rows) == { Cell(rows[k], col) : k \in 1..Len(rows) }
                IN /\ ~warned
                   /\ values(call.res.rows) = values(call.res.filtered)
                   /\ Len(call.res.rows) = Cardinality(values(call.res.filtered))

\* C17 witness: two desa of one kecamatan were dissolved to one feature.
C17_Witness ==
    /\ OkuCalled
    /\ oku_gdf.ret = "gdf"
    /\ DissolveColumns(WADMKC) # {}
    /\ Len(oku_gdf.filtered) = 2
    /\ Len(oku_gdf.rows) = 1

OkuName == << "OGAN", "KOMERING", "ULU" >>

\* C18: the OKU filter selects a feature only if its name, upper-cased,
\* ends with OGAN KOMERING ULU: never a feature of OGAN KOMERING ULU TIMUR,
\* never one whose name is missing.
C18_OkuFilterIsExact ==
    OkuCalled =>
      \A k \in 1..Len(oku_gdf.filtered) :
        LET cell == Cell(oku_gdf.filtered[k], layer_gdf.columns[oku_gdf.name_col])
        IN /\ cell # Missing
           /\ EndsWith(UpperWords(cell), OkuName)
           /\ UpperWords(cell) # << "OGAN", "KOMERING", "ULU", "TIMUR" >>

\* C18 witness: the layer holds a feature of OGAN KOMERING ULU TIMUR and one
\* of Ogan Komering Ulu, and only the second was selected.
C18_Witness ==
    /\ OkuCalled
    /\ oku_gdf.name_col # 0
    /\ layer_gdf.columns[oku_gdf.name_col].holds = "kabkota"
    /\ \E k \in 1..Len(layer_gdf.rows) :
         layer_gdf.rows[k].kabkota = << "OGAN", "KOMERING", "ULU", "TIMUR" >>
    /\ Len(oku_gdf.filtered) = 1
    /\ oku_gdf.filtered[1].kabkota = << "Ogan", "Komering", "Ulu" >>

(***************************************************************************)
(* OSM extraction properties.                                              *)
(***************************************************************************)
\* C10: a region whose network has no road features gets a warning and an
\* empty road set from extract_roads; whichever of the two road sets are
\* empty, save_data and print_summary raise nothing, and once save_data
\* has run osm_roads_<region>.geojson exists for exactly the regions with
\* a non-empty road set.
C10_EmptyRoadsAreNoError ==
    /\ \A r \in OsmRegions :
         (roads[r].done /\ (roads_raw[r].none \/ Len(roads_raw[r].rows) = 0))
            => (roads[r].warned /\ Len(roads[r].rows) = 0)
    /\ roads["oku"].done => (fault = "" /\ opc # "crashed")
    /\ opc \in {"create_visualization", "print_summary", "finished"}
         => \A r \in OsmRegions :
              RoadsFile(r) \in osm_outputs <=> Len(roads[r].rows) > 0
    /\ opc = "finished" => printed # {}

\* Whether main has called fn (for region), and with what result.
Called(fn, region) ==
    \E k \in 1..Len(calls) : calls[k].fn = fn /\ calls[k].region = region

Returned(fn, region, result) ==
    \E k \in 1..Len(calls) :
        calls[k].fn = fn /\ calls[k].region = region /\ calls[k].ret = result

\* C12: a failure is caught at the top level of the script and reported by
\* a message and an early return, never by an uncaught exception; for
\* extract_osm_data.main: when a boundary GeoJSON is missing, main returns
\* early after load_boundaries and no exception leaves it.
C12_MissingBoundaryEndsMainQuietly ==
    (Called("load_boundaries", "none")
       /\ \E r \in OsmRegions : ~osm_env.boundaries[r])
      => (opc = "returned" /\ fault # "FileNotFoundError")

\* The steps of main in the order of lines 438-474.
MainOrder ==
    << "download_indonesia_pbf", "load_boundaries", "extract_regional_pbf",
       "extract_regional_pbf", "read_layers" >>

LayersTouched ==
    \/ Called("read_layers", "none")
    \/ \E r \in OsmRegions : roads[r].done
    \/ osm_outputs # {}
    \/ printed # {}

\* C19: main runs its steps in order and gates each on the one before.  The
\* regional extraction is attempted only after download_indonesia_pbf
\* returned True, the OKU extraction only after the Tangsel extraction
\* returned True, and no layer is read, saved or plotted unless both
\* extractions returned True; extract_regional_pbf runs osmium only when
\* the output PBF did not exist and the Indonesia PBF did.
C19_StepsInOrderAndGated ==
    /\ Len(calls) <= Len(MainOrder)
    /\ \A k \in 1..Len(calls) : calls[k].fn = MainOrder[k]
    /\ \A r \in OsmRegions :
         Called("extract_regional_pbf", r)
           => Returned("download_indonesia_pbf", "none", "True")
    /\ Called("extract_regional_pbf", "oku")
         => /\ Returned("extract_regional_pbf", "tangsel", "True")
            /\ \A k \in 1..Len(calls) :
                 (calls[k].fn = "extract_regional_pbf" /\ calls[k].region = "oku")
                   => \E j \in 1..(k - 1) :
                        /\ calls[j].fn = "extract_regional_pbf"
                        /\ calls[j].region = "tangsel"
    /\ LayersTouched
         => \A r \in OsmRegions : Returned("extract_regional_pbf", r, "True")
    /\ \A k \in 1..Len(calls) :
         calls[k].osmium => (~calls[k].output_existed /\ calls[k].pbf_existed)

\* C19 witness: the Tangsel extraction ran osmium and failed, main returned
\* and the OKU extraction was never attempted.
C19_Witness ==
    /\ opc = "returned"
    /\ Returned("download_indonesia_pbf", "none", "True")
    /\ \E k \in 1..Len(calls) :
         /\ calls[k].fn = "extract_regional_pbf"
         /\ calls[k].region = "tangsel"
         /\ calls[k].osmium
         /\ calls[k].ret = "False"
    /\ ~Called("extract_regional_pbf", "oku")
    /\ ~LayersTouched

(***************************************************************************)
(* Properties of the GDB folder check.                                     *)
(***************************************************************************)
\* The item the nested folder held under the name n before the run.
NestedBefore(n) == gdb_pre.nested.items[n]

\* C24: the nested-folder fix of check_gdb_data never overwrites or loses
\* data: an item already in the script folder is left unchanged; an item is
\* moved up only where the script folder had no item of that name; every
\* item the nested folder held is afterwards in exactly one of the two
\* folders; and the nested folder is removed only when it is empty.
C24_NestedFixLosesNothing ==
    gdb_ret.called =>
      /\ \A n \in GdbNames :
           gdb_pre.script[n] # NoItem => script_dir[n] = gdb_pre.script[n]
      /\ \A n \in GdbNames :
           script_dir[n] # gdb_pre.script[n]
             => gdb_pre.script[n] = NoItem /\ script_dir[n] = NestedBefore(n)
      /\ \A n \in GdbNames :
           NestedBefore(n) # NoItem
             => (script_dir[n] = NestedBefore(n)) # (nested_dir.items[n] = NestedBefore(n))
      /\ (gdb_pre.nested.kind = "dir" /\ nested_dir.kind = "none")
           => \A n \in GdbNames :
                NestedBefore(n) # NoItem => script_dir[n] = NestedBefore(n)

(***************************************************************************)
(* Properties of the business POI extraction.                              *)
(***************************************************************************)
\* The category the priority rule gives a POI row: shop, then amenity, then
\* office, else 'other'.
ByPriority(r) ==
    IF r.shop # NA THEN <<"shop:", r.shop>>
    ELSE IF r.amenity # NA THEN <<"amenity:", r.amenity>>
    ELSE IF r.office # NA THEN <<"office:", r.office>>
    ELSE <<"other">>

\* C23: extract_business_data keeps exactly the POIs whose name is not
\* null, each once and in their order; no row with a null name is in the
\* output; and every retained row carries exactly the category the fixed
\* priority gives it: 'shop:<v>' if shop is non-null, else 'amenity:<v>' if
\* amenity is non-null, else 'office:<v>' if office is non-null, else
\* 'other'.
C23_NamedPoisCategorised ==
    bizpc = "done" =>
      /\ { biz.rows[j].index : j \in 1..Len(biz.rows) }
           = { k \in 1..Len(pois.rows) : pois.rows[k].name # NA }
      /\ \A j, k \in 1..Len(biz.rows) :
           j < k => biz.rows[j].index < biz.rows[k].index
      /\ \A j \in 1..Len(biz.rows) :
           LET b == biz.rows[j]
               r == pois.rows[b.index]
           IN /\ b.name # NA
              /\ b.name = r.name
              /\ b.category = ByPriority(r)
              /\ "category" \in biz.columns

\* C23 witness: of two POIs the unnamed one was dropped and the named one,
\* tagged both as shop and as amenity, came out as a shop.
C23_Witness ==
    /\ bizpc = "done"
    /\ Len(pois.rows) = 2
    /\ Len(biz.rows) = 1
    /\ \E k \in 1..2 : pois.rows[k].name = NA
    /\ pois.rows[biz.rows[1].index].shop # NA
    /\ pois.rows[biz.rows[1].index].amenity # NA
    /\ biz.rows[1].category = <<"shop:", "supermarket">>

====
